---------------------------- MODULE Spec2Model ----------------------------
(***************************************************************************)
(* AskData (hansparsons/AskData): natural-language questions answered by   *)
(* LLM-generated SQL over ingested spreadsheets and documents.             *)
(*                                                                         *)
(* The module holds seven specifications over one set of variables:        *)
(*   SpecNames     the table-name derivations of the upload path and of    *)
(*                 the query path, applied to bounded raw file names;      *)
(*   SpecInfer     inferColumnType applied to bounded columns of cells;    *)
(*   Spec          ingestion (storeProcessedData) running concurrently     *)
(*                 with a query request (DocumentService.executeQuery);    *)
(*   SpecCache     two concurrent calls of DatabaseService on its cache    *)
(*                 of connectors;                                          *)
(*   SpecConn      one connector built by a factory and driven by one of   *)
(*                 its callers;                                            *)
(*   SpecIngest    storeProcessedData called for one source after the      *)
(*                 other;                                                  *)
(*   SpecGroupBy   fixGroupByIssues applied to bounded statements, and the *)
(*                 engine running the result twice.                        *)
(* Text is kept as TLA+ strings and taken apart with Len, SubSeq and \o,   *)
(* so every regular expression of the source is computed character by     *)
(* character.                                                              *)
(***************************************************************************)
EXTENDS Integers, Sequences, FiniteSets, TLC

VARIABLES
    \* --- table-name derivations (SpecNames)
    rawName,        \* file.originalname of an upload
    pcN,            \* position of the name harness
    once,           \* sanitizedTableName computed from rawName
    twice,          \* the same sanitization applied to `once`
    processedName,  \* ProcessedData.schema.tableName
    tableIdent,     \* sanitizedTableName of storeProcessedData: the backing table
    sourceName,     \* the source name the client sends with a question
    lookupIdent,    \* tableName of getSourceSchemas: SHOW COLUMNS FROM `..`
    promptIdent,    \* sanitizedTableName of generateSQLQuery's prompt
    \* --- column type inference (SpecInfer)
    cells,          \* the column: one cell per row of the sheet
    pcI,            \* "start" | "done"
    inferred,       \* result of inferColumnType
    \* --- the database and one ingestion (Spec)
    tableState,     \* the backing table: "absent" | "created" | "loaded"
    catalog,        \* number of DataSource records of the source
    upPc,           \* position of storeProcessedData
    \* --- one query request (Spec)
    qPc,            \* the stage the request has reached, or "Correcting" | "Failed"
    provider,       \* the service of the DocumentService: "ollama" | "openai" | "none"
    question,       \* the question of the request
    schemas,        \* the schemas of getSourceSchemas
    llmCalls,       \* number of SQL generation calls sent to the LLM
    rawResponse,    \* the LLM's answer to the first generation call
    firstStatement, \* cleanedResponse of generateSQLQuery
    correction,     \* fixedQuery of generateSQLQuery
    generated,      \* the statement generateSQLQuery returned
    sqlQuery,       \* sqlQuery of executeQuery
    validatedText,  \* the text validateColumnNames found valid
    executedText,   \* the text handed to sequelize.query
    engineCalls,    \* number of statements sent to the engine
    answerCalls,    \* number of answer-generation calls
    stages,         \* the stages entered, in order
    failedAt,       \* the stage whose action failed
    qError,         \* the message of the error thrown
    engineError,    \* the error of the last attempt of sequelize.query that failed
    execute,        \* the execute flag of the request
    reply,          \* what POST /api/query answers: "none" | "sql" | "full" | "error"
    applied,        \* the repairs the statement of the request went through, in order
    \* --- DatabaseService (SpecCache)
    connectors,     \* DatabaseService.connectors: id -> the call whose connector it holds
    dsType,         \* connectionConfig.databaseType of the stored data source
    dsRecord,       \* the DataSource record of the stored data source exists
    svcOp,          \* the method each call runs
    svcPc,          \* the position of each call
    svcConn,        \* the connector each call built
    svcUses,        \* the call whose connector each call works with
    \* --- one connector and its caller (SpecConn)
    caller,         \* who builds and drives the connector
    factory,        \* the factory the caller uses
    reqType,        \* the type handed to createConnector
    connector,      \* the connector: its engine and its handle (connection or pool)
    script,         \* the calls the caller has still to make
    thrown,         \* the error of the last call, NoError when it returned
    log,            \* the calls made so far, each with what went wrong in it
    tableList,      \* the table list getTables returned
    result,         \* what the caller hands back
    pcC,            \* "new" | "run" | "done"
    \* --- the database after a sequence of ingestions (SpecIngest)
    dbTables,       \* the names of the tables of the database
    tableRows,      \* <<table, source>>: the table holds rows of the source
    catalogRecords, \* the DataSource records, in the order they were written
    ingestions,     \* number of calls of storeProcessedData so far
    \* --- fixGroupByIssues and the engine (SpecGroupBy)
    gbInput,        \* sqlQuery handed to fixGroupByIssues
    gbFixed,        \* the statement fixGroupByIssues returned
    sqlMode,        \* sql_mode of the engine
    firstRows,      \* the answer of the engine to the first execution
    secondRows,     \* the answer of the engine to the second execution
    pcG             \* "start" | "fixed" | "ranOnce" | "ranTwice"

nameVars  == <<rawName, pcN, once, twice, processedName, tableIdent,
               sourceName, lookupIdent, promptIdent>>
inferVars == <<cells, pcI, inferred>>
cacheVars == <<connectors, dsType, dsRecord, svcOp, svcPc, svcConn, svcUses>>

-----------------------------------------------------------------------------
(* Characters and strings: the string methods and the pieces of regular     *)
(* expressions that the source uses                                         *)

\* the lower-case letter of each upper-case letter, and the converse
LowerOf ==
    "A" :> "a" @@ "B" :> "b" @@ "C" :> "c" @@ "D" :> "d" @@ "E" :> "e" @@
      "F" :> "f" @@ "G" :> "g" @@ "H" :> "h" @@ "I" :> "i" @@ "J" :> "j" @@
      "K" :> "k" @@ "L" :> "l" @@ "M" :> "m" @@ "N" :> "n" @@ "O" :> "o" @@
      "P" :> "p" @@ "Q" :> "q" @@ "R" :> "r" @@ "S" :> "s" @@ "T" :> "t" @@
      "U" :> "u" @@ "V" :> "v" @@ "W" :> "w" @@ "X" :> "x" @@ "Y" :> "y" @@
      "Z" :> "z"
UpperOf ==
    "a" :> "A" @@ "b" :> "B" @@ "c" :> "C" @@ "d" :> "D" @@ "e" :> "E" @@
      "f" :> "F" @@ "g" :> "G" @@ "h" :> "H" @@ "i" :> "I" @@ "j" :> "J" @@
      "k" :> "K" @@ "l" :> "L" @@ "m" :> "M" @@ "n" :> "N" @@ "o" :> "O" @@
      "p" :> "P" @@ "q" :> "Q" @@ "r" :> "R" @@ "s" :> "S" @@ "t" :> "T" @@
      "u" :> "U" @@ "v" :> "V" @@ "w" :> "W" @@ "x" :> "X" @@ "y" :> "Y" @@
      "z" :> "Z"
\* [0-9] and \d
Digits == {"0", "1", "2", "3", "4", "5", "6", "7", "8", "9"}
\* [A-Za-z]
Letters == DOMAIN LowerOf \cup DOMAIN UpperOf
\* \w and [a-zA-Z0-9_]
WordChars == Letters \cup Digits \cup {"_"}
\* \s (the white space the model's texts hold)
SpaceChars == {" ", "\n", "\t"}

\* the character of s at position i (1-based), "" outside of s
At(s, i) == IF i >= 1 /\ i <= Len(s) THEN SubSeq(s, i, i) ELSE ""
\* the text from position i to the end
From(s, i) == SubSeq(s, i, Len(s))
\* the text before position i
Before(s, i) == SubSeq(s, 1, i - 1)

\* s with each of its characters replaced by F of it
MapChars(s, F(_)) ==
    LET RECURSIVE Go(_, _)
        Go(a, b) ==
            IF a > b THEN ""
            ELSE IF a = b THEN F(At(s, a))
            ELSE Go(a, (a + b) \div 2) \o Go((a + b) \div 2 + 1, b)
    IN  Go(1, Len(s))
toLowerCase(s) ==
    MapChars(s, LAMBDA c : IF c \in DOMAIN LowerOf THEN LowerOf[c] ELSE c)
toUpperCase(s) ==
    MapChars(s, LAMBDA c : IF c \in DOMAIN UpperOf THEN UpperOf[c] ELSE c)

\* pat occurs in s at position i
MatchesAt(s, i, pat) ==
    /\ i >= 1
    /\ i + Len(pat) - 1 <= Len(s)
    /\ SubSeq(s, i, i + Len(pat) - 1) = pat
\* pat occurs in s at position i, letter case ignored (the i flag)
MatchesAtCI(s, i, pat) ==
    /\ i >= 1
    /\ i + Len(pat) - 1 <= Len(s)
    /\ \A k \in 1..Len(pat) :
           toUpperCase(At(s, i + k - 1)) = toUpperCase(At(pat, k))
includes(s, pat) == \E i \in 1..(Len(s) + 1) : MatchesAt(s, i, pat)

\* \b between the characters i - 1 and i of s
WordBoundary(s, i) == (At(s, i - 1) \in WordChars) # (At(s, i) \in WordChars)

\* the least member of a set of positions, 0 when the set is empty
FirstOf(P) == IF P = {} THEN 0 ELSE CHOOSE i \in P : \A j \in P : i <= j
\* the greatest member of a set of positions, 0 when the set is empty
LastOf(P) == IF P = {} THEN 0 ELSE CHOOSE i \in P : \A j \in P : j <= i

\* length of the longest run of characters of the set S that starts at i
RunIn(s, i, S) ==
    LET stop == FirstOf({j \in i..Len(s) : At(s, j) \notin S})
    IN  IF i < 1 \/ i > Len(s) THEN 0
        ELSE IF stop = 0 THEN Len(s) - i + 1
        ELSE stop - i
\* length of the longest run of characters outside the set S that starts at i
RunNotIn(s, i, S) ==
    LET stop == FirstOf({j \in i..Len(s) : At(s, j) \in S})
    IN  IF i < 1 \/ i > Len(s) THEN 0
        ELSE IF stop = 0 THEN Len(s) - i + 1
        ELSE stop - i

\* F(x), x being computed before F is applied to it: the steps of a chain
\* of calls, s.f().g(), are taken one after the other
Apply(F(_), x) == CHOOSE y \in {F(v) : v \in {x}} : TRUE

\* s.replace of a global expression: MatchLen(i) is the length of the match
\* at position i, 0 when there is none, and By(i) is what replaces it
ReplaceAll(s, MatchLen(_), By(_)) ==
    LET RECURSIVE Go(_)
        Go(i) ==
            LET j == FirstOf({k \in i..Len(s) : MatchLen(k) > 0})
            IN  IF j = 0 THEN From(s, i)
                ELSE SubSeq(s, i, j - 1) \o By(j) \o Go(j + MatchLen(j))
    IN  Go(1)

\* s.indexOf(pat) + 1
FirstIndexOf(s, pat) == FirstOf({i \in 1..Len(s) : MatchesAt(s, i, pat)})
\* s.lastIndexOf(c) + 1
LastIndexOf(s, c) == LastOf({i \in 1..Len(s) : At(s, i) = c})

trim(s) ==
    SubSeq(s, 1 + RunIn(s, 1, SpaceChars),
           LastOf({j \in 1..Len(s) : At(s, j) \notin SpaceChars}))

-----------------------------------------------------------------------------
(* Table-name sanitization: fileProcessor.ts, storeProcessedData *)

\* Date.now() has thirteen digits; /^\d{13}-/ counts them
TimestampDigits == 13

\* .replace(/^\d{13}-/, '')
StripTimestampPrefix(s) ==
    IF /\ Len(s) >= TimestampDigits + 1
       /\ \A i \in 1..TimestampDigits : At(s, i) \in Digits
       /\ At(s, TimestampDigits + 1) = "-"
      THEN From(s, TimestampDigits + 2)
      ELSE s

\* .replace(/\.[^/.]+$/, ''): the last dot, when what follows it up to the end
\* is not empty and holds no slash
StripFileExtension(s) ==
    LET d == LastIndexOf(s, ".")
    IN  IF /\ d > 0
           /\ d < Len(s)
           /\ \A j \in (d + 1)..Len(s) : At(s, j) # "/"
          THEN Before(s, d)
          ELSE s

\* .replace(/[^a-zA-Z0-9_]/g, '_')
\* (the replacement left out: what the claims about the identifier rest on)
ReplaceSpecialCharsSkipped(s) == s
ReplaceSpecialChars(s) ==
    MapChars(s, LAMBDA c : IF c \in WordChars THEN c ELSE "_")

\* .replace(/^[0-9]/, 't$&')
PrefixLeadingDigit(s) ==
    IF s # "" /\ At(s, 1) \in Digits THEN "t" \o s ELSE s

\* sanitizedTableName of storeProcessedData; generateSQLQuery repeats the
\* same five replacements for the prompt
SanitizeTableName(s) ==
    toLowerCase(
      PrefixLeadingDigit(
        ReplaceSpecialChars(
          StripFileExtension(
            StripTimestampPrefix(s)))))

\* path.parse(file.originalname).name of the upload handler: the base name
\* without its last extension (a leading dot starts no extension)
ParsedName(s) ==
    LET slash == LastIndexOf(s, "/")
        base  == From(s, slash + 1)
        d     == LastIndexOf(base, ".")
    IN  IF d > 1 /\ base # ".." THEN Before(base, d) ELSE base

\* path.extname(file.originalname).slice(1).toLowerCase()
FileType(s) ==
    LET slash == LastIndexOf(s, "/")
        base  == From(s, slash + 1)
        d     == LastIndexOf(base, ".")
    IN  IF d > 1 /\ base # ".." THEN toLowerCase(From(base, d + 1)) ELSE ""

\* fileName.replace(/^\d+-/, '') of processSpreadsheet
StripDigitsPrefix(s) ==
    LET n == RunIn(s, 1, Digits)
    IN  IF n >= 1 /\ n < Len(s) /\ At(s, n + 1) = "-" THEN From(s, n + 2) ELSE s

\* schema.tableName of processSpreadsheet
SpreadsheetTableName(fileName) == StripFileExtension(StripDigitsPrefix(fileName))
\* schema.tableName of processDocument
DocumentTableName(fileName) == StripFileExtension(fileName)

\* tableName of getSourceSchemas: timestamp and extension removed, nothing else
SourceTableName(s) == StripFileExtension(StripTimestampPrefix(s))

\* multer's filename: `${Date.now()}-${file.originalname}`
UploadTimestamp == "1700000000000"
StoredFileName(s) == UploadTimestamp \o "-" \o s

\* the switch of DocumentService.processFile
SpreadsheetTypes == {"xlsx", "xls"}
DocumentTypes    == {"docx", "pdf"}

-----------------------------------------------------------------------------
(* SpecNames: the derivations applied to bounded raw names *)

MaxNameLen == 3
NameAlphabet == {"a", "B", "1", " ", ".", "-", "/"}

RECURSIVE StringsUpTo(_)
StringsUpTo(n) ==
    IF n = 0 THEN {""}
    ELSE LET shorter == StringsUpTo(n - 1)
         IN  shorter \cup {s \o c : s \in shorter, c \in NameAlphabet}

NamePrefixes   == {"", UploadTimestamp \o "-", "2024-"}
NameExtensions == {"", ".xlsx", ".pdf"}
RawNames ==
    {p \o b \o e : p \in NamePrefixes, b \in StringsUpTo(MaxNameLen),
                   e \in NameExtensions}

InitNames ==
    /\ rawName \in RawNames
    /\ pcN = "start"
    /\ once = ""
    /\ twice = ""
    /\ processedName = ""
    /\ tableIdent = ""
    /\ sourceName = ""
    /\ lookupIdent = ""
    /\ promptIdent = ""

IdleNames ==
    /\ rawName = ""
    /\ pcN = "idle"
    /\ once = ""
    /\ twice = ""
    /\ processedName = ""
    /\ tableIdent = ""
    /\ sourceName = ""
    /\ lookupIdent = ""
    /\ promptIdent = ""

\* storeProcessedData, lines 178-183, on an arbitrary schema.tableName
ApplySanitize ==
    /\ pcN = "start"
    /\ once' = SanitizeTableName(rawName)
    /\ pcN' = "once"
    /\ UNCHANGED <<rawName, twice, processedName, tableIdent, sourceName,
                   lookupIdent, promptIdent>>

\* the same lines on their own result
ApplySanitizeAgain ==
    /\ pcN = "once"
    /\ twice' = SanitizeTableName(once)
    /\ pcN' = "twice"
    /\ UNCHANGED <<rawName, once, processedName, tableIdent, sourceName,
                   lookupIdent, promptIdent>>

\* POST /api/upload and DocumentService.processFile up to the ProcessedData
ProcessFile ==
    /\ pcN = "twice"
    /\ LET fileName == ParsedName(rawName)
           fileType == FileType(rawName)
       IN  IF fileName = "" \/ fileType = ""
             THEN /\ pcN' = "rejected"
                  /\ UNCHANGED processedName
           ELSE IF fileType \in SpreadsheetTypes
             THEN /\ processedName' = SpreadsheetTableName(fileName)
                  /\ pcN' = "processed"
           ELSE IF fileType \in DocumentTypes
             THEN /\ processedName' = DocumentTableName(fileName)
                  /\ pcN' = "processed"
           ELSE /\ pcN' = "rejected"
                /\ UNCHANGED processedName
    /\ UNCHANGED <<rawName, once, twice, tableIdent, sourceName, lookupIdent,
                   promptIdent>>

\* storeProcessedData: the name of the backing table and of the catalog record
StoreTableName ==
    /\ pcN = "processed"
    /\ tableIdent' = SanitizeTableName(processedName)
    /\ pcN' = "stored"
    /\ UNCHANGED <<rawName, once, twice, processedName, sourceName, lookupIdent,
                   promptIdent>>

\* App.tsx: the selected source is the `filename` of the upload response
\* (line 54) or the `name` of a record of GET /api/data-sources (line 403)
SelectSource ==
    /\ pcN = "stored"
    /\ sourceName' \in {StoredFileName(rawName), tableIdent}
    /\ pcN' = "selected"
    /\ UNCHANGED <<rawName, once, twice, processedName, tableIdent, lookupIdent,
                   promptIdent>>

\* getSourceSchemas: SHOW COLUMNS FROM `tableName` finds the table or throws
LookupTable ==
    /\ pcN = "selected"
    /\ lookupIdent' = SourceTableName(sourceName)
    /\ pcN' = IF lookupIdent' = tableIdent THEN "resolved" ELSE "notfound"
    /\ UNCHANGED <<rawName, once, twice, processedName, tableIdent, sourceName,
                   promptIdent>>

\* OllamaService.generateSQLQuery: the table name written into the prompt
BuildPrompt ==
    /\ pcN = "resolved"
    /\ promptIdent' = SanitizeTableName(lookupIdent)
    /\ pcN' = "prompted"
    /\ UNCHANGED <<rawName, once, twice, processedName, tableIdent, sourceName,
                   lookupIdent>>

-----------------------------------------------------------------------------
(* inferColumnType: fileProcessor.ts *)

\* A cell of the sheet as xlsx hands it over: t is the JavaScript type, s the
\* text of a string, or the decimal text of a number (5.0 is the number 5).
StringCell(s) == [t |-> "string", s |-> s]
NumberCell(s) == [t |-> "number", s |-> s]
BooleanCell   == [t |-> "boolean", s |-> "true"]
DateCell      == [t |-> "date", s |-> "2024-01-01"]
NullCell      == [t |-> "null", s |-> ""]

\* /[A-Za-z]/
HasLetter(s) == \E i \in 1..Len(s) : At(s, i) \in Letters

\* /^-?\d*\.?\d+$/
NumericPattern(s) ==
    LET r == IF MatchesAt(s, 1, "-") THEN From(s, 2) ELSE s
        a == RunIn(r, 1, Digits)
    IN  \/ a >= 1 /\ a = Len(r)
        \/ /\ a < Len(r)
           /\ At(r, a + 1) = "."
           /\ RunIn(r, a + 2, Digits) >= 1
           /\ a + 1 + RunIn(r, a + 2, Digits) = Len(r)

\* Number.isInteger(Number(value)) for the text of a number: no fraction, or a
\* fraction of zeros only; Number('') and Number('  ') are 0; anything else
\* is NaN
IsIntegerText(s) ==
    LET v == trim(s)
        r == IF MatchesAt(v, 1, "-") THEN From(v, 2) ELSE v
        d == LastIndexOf(r, ".")
    IN  \/ v = ""
        \/ /\ NumericPattern(v)
           /\ d = 0 \/ \A j \in (d + 1)..Len(r) : At(r, j) = "0"

\* the first loop, from row i on, with its two breaks
RECURSIVE FirstPass(_, _, _)
FirstPass(data, i, flags) ==
    IF i > Len(data) THEN flags
    ELSE LET value == data[i]
         IN  IF value.t = "string" /\ trim(value.s) # ""
               THEN IF HasLetter(trim(value.s))
                      THEN [flags EXCEPT !.hasString = TRUE]
                    ELSE IF NumericPattern(trim(value.s))
                      THEN FirstPass(data, i + 1, [flags EXCEPT !.hasNumber = TRUE])
                    ELSE [flags EXCEPT !.hasString = TRUE]
             ELSE IF value.t = "number"
               THEN FirstPass(data, i + 1, [flags EXCEPT !.hasNumber = TRUE])
             ELSE IF value.t = "boolean"
               THEN FirstPass(data, i + 1, [flags EXCEPT !.hasBoolean = TRUE])
             ELSE IF value.t = "date"
               THEN FirstPass(data, i + 1, [flags EXCEPT !.hasDate = TRUE])
             ELSE FirstPass(data, i + 1, flags)

\* the second loop: allIntegers
AllIntegers(data) ==
    \A i \in 1..Len(data) :
        \/ data[i].t \in {"null", "boolean", "date"}
        \/ IsIntegerText(data[i].s)

\* inferColumnType with the priority Date > String > Boolean > Number
inferColumnTypeDateFirst(data) ==
    LET flags == FirstPass(data, 1,
                   [hasString |-> FALSE, hasNumber |-> FALSE,
                    hasBoolean |-> FALSE, hasDate |-> FALSE])
    IN  IF flags.hasDate THEN "DATETIME"
        ELSE IF flags.hasString THEN "TEXT"
        ELSE IF flags.hasBoolean THEN "BOOLEAN"
        ELSE IF flags.hasNumber
          THEN (IF AllIntegers(data) THEN "INTEGER" ELSE "FLOAT")
        ELSE "TEXT"

inferColumnType(data) ==
    LET flags == FirstPass(data, 1,
                   [hasString |-> FALSE, hasNumber |-> FALSE,
                    hasBoolean |-> FALSE, hasDate |-> FALSE])
    IN  IF flags.hasString THEN "TEXT"
        ELSE IF flags.hasDate THEN "DATETIME"
        ELSE IF flags.hasBoolean THEN "BOOLEAN"
        ELSE IF flags.hasNumber
          THEN (IF AllIntegers(data) THEN "INTEGER" ELSE "FLOAT")
        ELSE "TEXT"

-----------------------------------------------------------------------------
(* SpecInfer: inferColumnType applied to bounded columns *)

MaxRows == 3
CellTexts ==
    {"5", "10", "7", "3", "5.0", "2.5", ".5", "-3", "5.", "N/A", "abc", "12a",
     "", " "}
Cells ==
    {StringCell(s) : s \in CellTexts}
      \cup {NumberCell("3"), NumberCell("2.5"), BooleanCell, DateCell, NullCell}

RECURSIVE ColumnsOfLen(_)
ColumnsOfLen(n) ==
    IF n = 0 THEN {<<>>}
    ELSE {Append(col, c) : col \in ColumnsOfLen(n - 1), c \in Cells}
\* the columns of one to n rows
ColumnsUpTo(n) == UNION {ColumnsOfLen(k) : k \in 1..n}

InitInfer ==
    /\ cells \in ColumnsUpTo(MaxRows)
    /\ pcI = "start"
    /\ inferred = ""

IdleInfer ==
    /\ cells = <<>>
    /\ pcI = "idle"
    /\ inferred = ""

\* processSpreadsheet, line 61: type: inferColumnType(data, key)
InferType ==
    /\ pcI = "start"
    /\ inferred' = inferColumnType(cells)
    /\ pcI' = "done"
    /\ UNCHANGED cells

-----------------------------------------------------------------------------
(* OllamaService.extractSQLQuery: ollamaService.ts *)

\* TLA+ strings cannot hold the backtick: the model writes it as a tilde, a
\* character that the texts of the model do not use otherwise
BT == "~"
\* the fence of a markdown code block
Fence == BT \o BT \o BT

\* .replace(<fence>sql\n|<fence>, '')
RemoveFences(s) ==
    ReplaceAll(s, LAMBDA i : IF MatchesAt(s, i, Fence \o "sql\n") THEN 7
                             ELSE IF MatchesAt(s, i, Fence) THEN 3 ELSE 0,
               LAMBDA i : "")

\* one of the two expressions for a file name in the place of a table name
\* matches: after FROM and white space, an optional quote, thirteen digits,
\* a dash and [\w-]+\.[a-zA-Z]+, or [\w-]+\.[a-zA-Z]+ at once
HasUnsanitizedTableName(s) ==
    \E i \in 1..Len(s) :
        LET w == RunIn(s, i + 4, SpaceChars)
            q == i + 4 + w
            d == IF At(s, q) \in {"'", "\"", BT} THEN q + 1 ELSE q
            FileNameAt(p) ==
                LET r == RunIn(s, p, WordChars \cup {"-"})
                IN  r >= 1 /\ At(s, p + r) = "." /\ At(s, p + r + 1) \in Letters
        IN  /\ MatchesAtCI(s, i, "FROM")
            /\ w >= 1
            /\ \/ /\ \A j \in d..(d + TimestampDigits - 1) : At(s, j) \in Digits
                  /\ At(s, d + TimestampDigits) = "-"
                  /\ FileNameAt(d + TimestampDigits + 1)
               \/ FileNameAt(q)

\* Pattern 1: a text between doubled backticks is put between single ones
FixDoubleBackticks(s) ==
    LET Inner(i) == RunNotIn(s, i + 2, {BT})
        MatchLen(i) ==
            IF /\ MatchesAt(s, i, BT \o BT)
               /\ Inner(i) >= 1
               /\ MatchesAt(s, i + 2 + Inner(i), BT \o BT)
              THEN Inner(i) + 4 ELSE 0
        By(i) == BT \o SubSeq(s, i + 2, i + 1 + Inner(i)) \o BT
    IN  ReplaceAll(s, MatchLen, By)

\* Pattern 2: .replace(/`([^`\s]+)\s+([^`\s]+)`/g, '`$1 $2`')
FixSplitBackticks(s) ==
    LET A(i) == RunNotIn(s, i + 1, SpaceChars \cup {BT})
        W(i) == RunIn(s, i + 1 + A(i), SpaceChars)
        B(i) == RunNotIn(s, i + 1 + A(i) + W(i), SpaceChars \cup {BT})
        MatchLen(i) ==
            IF /\ At(s, i) = BT
               /\ A(i) >= 1 /\ W(i) >= 1 /\ B(i) >= 1
               /\ At(s, i + 1 + A(i) + W(i) + B(i)) = BT
              THEN A(i) + W(i) + B(i) + 2 ELSE 0
        By(i) == BT \o SubSeq(s, i + 1, i + A(i)) \o " "
                   \o SubSeq(s, i + 1 + A(i) + W(i), i + A(i) + W(i) + B(i)) \o BT
    IN  ReplaceAll(s, MatchLen, By)

\* (?:\s+\w+)* taken greedily from position p: the position after the last word
RECURSIVE WordsEnd(_, _)
WordsEnd(s, p) ==
    LET w == RunIn(s, p, SpaceChars)
        r == RunIn(s, p + w, WordChars)
    IN  IF w >= 1 /\ r >= 1 THEN WordsEnd(s, p + w + r) ELSE p

\* Pattern 3, /(?<!`)(\w+(?:\s+\w+)+)(?!`)/: the last position of the match
\* that starts at i, 0 when there is none. Before a backtick the expression
\* gives back the last character of the last word, or the last word.
MultiWordEnd(s, i) ==
    LET first == i + RunIn(s, i, WordChars)
        e == WordsEnd(s, first)
        lastWord == e - 1 - LastOf({j \in first..(e - 1) : At(s, j) \in SpaceChars})
        prev == LastOf({j \in i..(e - 2) : At(s, j) \notin SpaceChars})
    IN  IF At(s, i - 1) = BT \/ At(s, i) \notin WordChars \/ e = first THEN 0
        ELSE IF At(s, e) # BT THEN e - 1
        ELSE IF lastWord >= 2 THEN e - 2
        ELSE IF prev >= first THEN prev
        ELSE 0

\* cleanedQuery.match(columnsWithSpacesRegex), from position i on
RECURSIVE PotentialColumns(_, _)
PotentialColumns(s, i) ==
    LET j == FirstOf({k \in i..Len(s) : MultiWordEnd(s, k) > 0})
    IN  IF j = 0 THEN <<>>
        ELSE <<SubSeq(s, j, MultiWordEnd(s, j))>>
               \o PotentialColumns(s, MultiWordEnd(s, j) + 1)

\* the sqlKeywords of extractSQLQuery
ExtractionKeywords ==
    {"SELECT", "FROM", "WHERE", "GROUP BY", "ORDER BY", "HAVING", "AS", "AND",
     "OR", "ON", "JOIN", "LEFT JOIN", "RIGHT JOIN", "INNER JOIN", "OUTER JOIN",
     "FULL JOIN", "CROSS JOIN", "LIMIT", "OFFSET", "UNION", "UNION ALL",
     "DISTINCT", "INSERT INTO", "VALUES", "UPDATE", "SET", "DELETE FROM",
     "CREATE TABLE", "ALTER TABLE", "DROP TABLE", "INDEX", "VIEW", "PROCEDURE",
     "FUNCTION", "TRIGGER", "CASCADE", "TEMPORARY", "IS NULL", "IS NOT NULL",
     "BETWEEN", "IN", "NOT IN", "EXISTS", "NOT EXISTS", "CASE", "WHEN", "THEN",
     "ELSE", "END", "LIKE", "NOT LIKE"}

\* s.replace(new RegExp(`\\b${word}\\b`, 'g'), by)
ReplaceWord(s, word, by) ==
    ReplaceAll(s, LAMBDA i : IF /\ MatchesAt(s, i, word)
                                /\ WordBoundary(s, i)
                                /\ WordBoundary(s, i + Len(word))
                               THEN Len(word) ELSE 0,
               LAMBDA i : by)

\* the loop over potentialColumns: a column that holds no keyword, and is
\* held by none, is put between backticks wherever it occurs
RECURSIVE QuoteColumns(_, _)
QuoteColumns(s, cols) ==
    LET col == Head(cols)
        containsSqlKeyword ==
            \E keyword \in ExtractionKeywords :
                \/ includes(toUpperCase(col), keyword)
                \/ includes(keyword, toUpperCase(col))
    IN  IF cols = <<>> THEN s
        ELSE QuoteColumns(IF containsSqlKeyword THEN s
                          ELSE ReplaceWord(s, col, BT \o col \o BT),
                          Tail(cols))

\* the alternatives of backtickKeywordsRegex
BacktickKeywords ==
    {"SELECT", "FROM", "WHERE", "GROUP BY", "ORDER BY", "HAVING", "LIMIT",
     "OFFSET", "JOIN", "AND", "OR", "ON", "AS", "UNION", "DISTINCT", "INSERT",
     "UPDATE", "DELETE", "CREATE", "ALTER", "DROP", "SET", "VALUES", "IN",
     "BETWEEN", "LIKE", "CASE", "WHEN", "THEN", "ELSE", "END"}

\* .replace(backtickKeywordsRegex, '$1')
UnquoteKeywords(s) ==
    LET Names(i) == {k \in BacktickKeywords :
                       MatchesAtCI(s, i + 1, k) /\ At(s, i + 1 + Len(k)) = BT}
        MatchLen(i) ==
            IF At(s, i) = BT /\ Names(i) # {}
              THEN Len(CHOOSE k \in Names(i) : TRUE) + 2 ELSE 0
        By(i) == SubSeq(s, i + 1, i + MatchLen(i) - 2)
    IN  ReplaceAll(s, MatchLen, By)

\* .replace(/SELECT\s+([^*,\n]+)\s*,\s*(\*)/i, 'SELECT $2, $1'): the first
\* SELECT whose column list is followed by a comma and the wildcard
ReorderSelectStar(s) ==
    LET StarEnd(g) ==      \* position of the wildcard when $1 starts at g
            LET r == RunNotIn(s, g, {"*", ",", "\n"})
                k == RunIn(s, g + r, SpaceChars)
                c == g + r + k
                k2 == RunIn(s, c + 1, SpaceChars)
            IN  IF r >= 1 /\ At(s, c) = "," /\ At(s, c + 1 + k2) = "*"
                  THEN c + 1 + k2 ELSE 0
        Start(i) ==        \* where $1 starts for the SELECT at i, 0 when no match
            LET w == RunIn(s, i + 6, SpaceChars)
            IN  IF MatchesAtCI(s, i, "SELECT")
                  THEN LastOf({g \in (i + 7)..(i + 6 + w) : StarEnd(g) > 0})
                  ELSE 0
        i == FirstOf({j \in 1..Len(s) : Start(j) > 0})
        g == Start(i)
        r == RunNotIn(s, g, {"*", ",", "\n"})
    IN  IF i = 0 THEN s
        ELSE Before(s, i) \o "SELECT *, " \o SubSeq(s, g, g + r - 1)
               \o From(s, StarEnd(g) + 1)

\* sqlParts = cleanedQuery.split(';'); sqlParts[0].trim() + ';'
FirstStatement(s) ==
    LET i == FirstIndexOf(s, ";")
    IN  IF i = 0 THEN s ELSE trim(Before(s, i)) \o ";"

\* the six explanationPatterns, applied one after the other: each removes the
\* text from its first match to the end
RemoveExplanation(s) ==
    LET Cut(t, P) == IF P = {} THEN t ELSE Before(t, FirstOf(P))
        BlankLine(t) ==
            {i \in 1..Len(t) :
               /\ At(t, i) = "\n"
               /\ \E j \in (i + 1)..(i + RunIn(t, i + 1, SpaceChars)) :
                      At(t, j) = "\n"}
        Marker(t, pat) == {i \in 1..Len(t) : MatchesAtCI(t, i, pat)}
        Exact(t, pat) == {i \in 1..Len(t) : MatchesAt(t, i, pat)}
    IN  Apply(LAMBDA t : Cut(t, Marker(t, "\nHere")),
          Apply(LAMBDA t : Cut(t, Marker(t, "\nThe above")),
            Apply(LAMBDA t : Cut(t, Marker(t, "\nThis query")),
              Apply(LAMBDA t : Cut(t, Exact(t, "\n/*")),
                Apply(LAMBDA t : Cut(t, Exact(t, "\n--")),
                  Cut(s, BlankLine(s)))))))

\* if (!cleanedQuery.trim().endsWith(';')) cleanedQuery = cleanedQuery.trim() + ';'
EnsureSemicolon(s) ==
    IF At(trim(s), Len(trim(s))) = ";" THEN s ELSE trim(s) \o ";"

\* extractSQLQuery, lines 402-516, in the order of its statements: the fences
\* (409-411), the table names of FROM (413-419), the backticks (426-429), the
\* columns of several words (432-462), the keywords (464-466), the explanation
\* after the statement (482-508)
ExtractionSteps ==
    <<"fence", "stale-reference", "backticks", "multi-word", "keywords",
      "truncation">>

\* extractSQLQuery: the statement, or the error it throws, and the repairs it
\* went through
extractSQLQuery(response) ==
    LET cleaned == Apply(trim, RemoveFences(response))
        Quote(s) == QuoteColumns(s, PotentialColumns(s, 1))
    IN  IF trim(response) = ""
          THEN [sql |-> "", error |-> "Empty response from LLM",
                applied |-> <<>>]
        ELSE IF HasUnsanitizedTableName(cleaned)
          THEN [sql |-> "",
                error |-> "Failed to extract SQL query from LLM response",
                applied |-> SubSeq(ExtractionSteps, 1, 2)]
        ELSE [sql |->
                Apply(EnsureSemicolon,
                  Apply(RemoveExplanation,
                    Apply(FirstStatement,
                      Apply(ReorderSelectStar,
                        Apply(UnquoteKeywords,
                          Apply(Quote,
                            Apply(FixSplitBackticks,
                              Apply(FixDoubleBackticks, cleaned)))))))),
              error |-> "",
              applied |-> ExtractionSteps]

-----------------------------------------------------------------------------
(* DocumentService.executeQuery: the repairs of the generated statement *)

\* /\bSELECT\s+\*/i of generateSQLQuery
HasSelectStar(s) ==
    \E i \in 1..Len(s) :
        LET w == RunIn(s, i + 6, SpaceChars)
        IN  /\ WordBoundary(s, i)
            /\ MatchesAtCI(s, i, "SELECT")
            /\ w >= 1
            /\ At(s, i + 6 + w) = "*"

\* s.replace(/[...]/g, ''): s without the characters of the set S
Without(s, S) == MapChars(s, LAMBDA c : IF c \in S THEN "" ELSE c)

\* seq.join(sep)
RECURSIVE Join(_, _)
Join(seq, sep) ==
    IF seq = <<>> THEN ""
    ELSE IF Len(seq) = 1 THEN seq[1]
    ELSE seq[1] \o sep \o Join(Tail(seq), sep)

\* the members of a Set in the order of their insertion
RECURSIVE Unique(_)
Unique(seq) ==
    LET front == Unique(SubSeq(seq, 1, Len(seq) - 1))
        last == seq[Len(seq)]
    IN  IF seq = <<>> THEN <<>>
        ELSE IF \E i \in 1..Len(front) : front[i] = last THEN front
        ELSE Append(front, last)

\* tableNameRegex from the k-th character of base on, at position i of s: the
\* length of the match, -1 when none. Letters match in either case; an
\* underscore of base matches one to three underscores.
RECURSIVE TableNameMatch(_, _, _, _)
TableNameMatch(s, i, base, k) ==
    LET u == RunIn(s, i, {"_"})
        n == IF At(base, k) = "_" THEN (IF u \in 1..3 THEN u ELSE 0)
             ELSE IF MatchesAtCI(s, i, At(base, k)) THEN 1 ELSE 0
        rest == TableNameMatch(s, i + n, base, k + 1)
    IN  IF k > Len(base) THEN 0
        ELSE IF n = 0 \/ rest < 0 THEN -1
        ELSE n + rest

\* sqlQuery.replace(tableNameRegex, schema.tableName);
\* base is tableNameBase: the table name with every run of underscores as one
EnsureTableName(s, base, tableName) ==
    ReplaceAll(s, LAMBDA i : IF /\ TableNameMatch(s, i, base, 1) > 0
                                /\ WordBoundary(s, i)
                                /\ WordBoundary(s, i + TableNameMatch(s, i, base, 1))
                               THEN TableNameMatch(s, i, base, 1) ELSE 0,
               LAMBDA i : tableName)

\* the two forEach over the schemas: every variant of a table name becomes
\* the table name; a table name that occurs nowhere between backticks is put
\* between backticks wherever it occurs
RepairTableNames(sql, tables) ==
    LET RECURSIVE Collapse(_)
        Collapse(t) ==
            IF t = "" THEN ""
            ELSE IF At(t, 1) = "_"
              THEN "_" \o Collapse(From(t, 1 + RunIn(t, 1, {"_"})))
            ELSE At(t, 1) \o Collapse(From(t, 2))
        RECURSIVE Ensure(_, _)
        Ensure(s, k) ==
            IF k > Len(tables) THEN s
            ELSE Ensure(EnsureTableName(s, Collapse(tables[k].tableName),
                                     tables[k].tableName), k + 1)
        RECURSIVE Quote(_, _)
        Quote(s, k) ==
            LET plain == Without(tables[k].tableName, {BT})
                quoted == BT \o plain \o BT
            IN  IF k > Len(tables) THEN s
                ELSE Quote(IF includes(s, plain) /\ ~includes(s, quoted)
                             THEN ReplaceWord(s, plain, quoted) ELSE s,
                           k + 1)
    IN  Quote(Ensure(sql, 1), 1)

\* the replace of "Fix value quoting": a quoted text (no line break in it)
\* whose closing quote stands before white space and ; or ), or at the end,
\* is rewritten when it holds a blank
FixValueQuoting(s) ==
    LET Quotes == {"'", "\""}
        Closes(i, j) ==
            /\ At(s, j) \in Quotes
            /\ \A k \in (i + 1)..(j - 1) : At(s, k) # "\n"
            /\ \/ j = Len(s)
               \/ At(s, j + 1 + RunIn(s, j + 1, SpaceChars)) \in {";", ")"}
        Close(i) == FirstOf({k \in (i + 1)..Len(s) : Closes(i, k)})
        MatchLen(i) ==
            IF At(s, i) \in Quotes /\ Close(i) > 0 THEN Close(i) - i + 1 ELSE 0
        By(i) ==
            IF includes(SubSeq(s, i + 1, Close(i) - 1), " ")
              THEN "'" \o trim(Without(SubSeq(s, i + 1, Close(i) - 1), {BT})) \o "'"
              ELSE SubSeq(s, i, Close(i))
    IN  ReplaceAll(s, MatchLen, By)

-----------------------------------------------------------------------------
(* DocumentService.fixGroupByIssues *)

\* the maximal runs of [a-zA-Z0-9_] of s from position i on, each as
\* <<first position, position after the last>>
RECURSIVE WordRuns(_, _)
WordRuns(s, i) ==
    LET j == FirstOf({k \in i..Len(s) : At(s, k) \in WordChars})
    IN  IF j = 0 THEN <<>>
        ELSE <<(<<j, j + RunIn(s, j, WordChars)>>)>>
               \o WordRuns(s, j + RunIn(s, j, WordChars))

\* /\b(MIN|MAX|AVG|SUM|COUNT)\s*\([^)]+\)/i at position i: the length of the
\* match, 0 when none
AggregateAt(s, i) ==
    LET names == {f \in {"MIN", "MAX", "AVG", "SUM", "COUNT"} : MatchesAtCI(s, i, f)}
        n == Len(CHOOSE f \in names : TRUE)
        w == RunIn(s, i + n, SpaceChars)
        r == RunNotIn(s, i + n + w + 1, {")"})
    IN  IF /\ WordBoundary(s, i)
           /\ names # {}
           /\ At(s, i + n + w) = "("
           /\ r >= 1
           /\ At(s, i + n + w + 1 + r) = ")"
          THEN n + w + r + 2 ELSE 0

\* sqlQuery.match(/\bSELECT\s+([^;)]*?)\s+FROM\b/i): the first SELECT with a
\* column list, free of ; and ), that ends before white space and FROM
SelectMatch(s) ==
    LET Ends(p) ==
            LET w == RunIn(s, p, SpaceChars)
            IN  w >= 1 /\ MatchesAtCI(s, p + w, "FROM") /\ WordBoundary(s, p + w + 4)
        Part(i) ==     \* $1 is s[g..p-1] for the <<g, p>> given; <<0, 0>>: no match
            LET w == RunIn(s, i + 6, SpaceChars)
                g == i + 6 + w
                P == {p \in (g + 1)..Len(s) :
                        Ends(p) /\ \A j \in g..(p - 1) : At(s, j) \notin {";", ")"}}
            IN  IF ~(WordBoundary(s, i) /\ MatchesAtCI(s, i, "SELECT") /\ w >= 1)
                  THEN <<0, 0>>
                ELSE IF P # {} THEN <<g, FirstOf(P)>>
                ELSE IF w >= 2 /\ MatchesAtCI(s, g, "FROM") /\ WordBoundary(s, g + 4)
                  THEN <<g - 1, g - 1>>
                ELSE <<0, 0>>
        i == FirstOf({j \in 1..Len(s) : Part(j)[1] > 0})
    IN  IF i = 0 THEN [found |-> FALSE, part |-> ""]
        ELSE [found |-> TRUE, part |-> SubSeq(s, Part(i)[1], Part(i)[2] - 1)]

\* the names that are functions, not columns
AggregateNames == {"count", "sum", "avg", "min", "max", "group_concat"}

\* the columns of a SELECT list: its words, lower case, in their order, but
\* for a word before ( or before AS, and for the names of the aggregates
SelectColumns(selectPart) ==
    LET Counts(run) ==
            LET e == run[2]
                w == RunIn(selectPart, e, SpaceChars)
                call == At(selectPart, e + w) = "("
                alias == /\ w >= 1
                         /\ MatchesAtCI(selectPart, e + w, "AS")
                         /\ RunIn(selectPart, e + w + 2, SpaceChars) >= 1
                closed == At(selectPart, e) = BT /\ At(selectPart, e + 1) \in WordChars
            IN  closed \/ ~(call \/ alias)
        runs == SelectSeq(WordRuns(selectPart, 1), Counts)
        names == [k \in 1..Len(runs) |->
                    toLowerCase(SubSeq(selectPart, runs[k][1], runs[k][2] - 1))]
    IN  SelectSeq(Unique(names), LAMBDA c : c \notin AggregateNames)

fixGroupByIssues(sql) ==
    LET GroupByAt(i) ==    \* the position after GROUP\s+BY at i, 0 when none
            LET w == RunIn(sql, i + 5, SpaceChars)
            IN  IF /\ WordBoundary(sql, i)
                   /\ MatchesAtCI(sql, i, "GROUP")
                   /\ w >= 1
                   /\ MatchesAtCI(sql, i + 5 + w, "BY")
                  THEN i + 7 + w ELSE 0
        FromTable(i) ==    \* $1 of /\bFROM\s+[`]?([a-zA-Z0-9_]+)[`]?/i at i
            LET w == RunIn(sql, i + 4, SpaceChars)
                b == i + 4 + w + (IF At(sql, i + 4 + w) = BT THEN 1 ELSE 0)
            IN  IF WordBoundary(sql, i) /\ MatchesAtCI(sql, i, "FROM") /\ w >= 1
                  THEN SubSeq(sql, b, b + RunIn(sql, b, WordChars) - 1)
                  ELSE ""
        Quoted(cols) == Join([k \in 1..Len(cols) |-> BT \o cols[k] \o BT], ", ")
        FirstAggregate(selectPart) ==
            FirstOf({i \in 1..Len(selectPart) : AggregateAt(selectPart, i) > 0})
        \* the aggregate of the SELECT list moved into a subquery; a SELECT list
        \* holds no ), so that (?![^(]*\)) changes nothing in it
        Subquery(columns, aggregateExpr, tableName) ==
            "SELECT " \o Quoted(columns) \o ", (" \o aggregateExpr
              \o ") AS agg_value FROM " \o BT \o tableName \o BT
              \o " WHERE (" \o aggregateExpr \o ") = (SELECT " \o aggregateExpr
              \o " AS agg_value FROM " \o BT \o tableName \o BT \o ") LIMIT 1"
        \* the columns of the SELECT list that the GROUP BY list lacks
        Missing(columns, groupByPart, runs) ==
            SelectSeq(columns, LAMBDA c :
              \A k \in 1..Len(runs) :
                c # toLowerCase(SubSeq(groupByPart, runs[k][1], runs[k][2] - 1)))
        Completed(g, stop, groupByPart, missing) ==
            Before(sql, g) \o "GROUP BY " \o groupByPart
              \o (IF missing = <<>> THEN ""
                  ELSE IF groupByPart = "" THEN Quoted(missing)
                  ELSE ", " \o Quoted(missing))
              \o From(sql, stop)
        GroupByList(g, start, stop, columns) ==
            Completed(g, stop, SubSeq(sql, start, stop - 1),
                      Missing(columns, SubSeq(sql, start, stop - 1),
                              WordRuns(SubSeq(sql, start, stop - 1), 1)))
        GroupByFrom(g, start, columns) ==
            GroupByList(g, start, start + RunNotIn(sql, start, {";", ")"}), columns)
        Fixed(aggregateOnly, selectMatch, f, g) ==
            IF aggregateOnly /\ (~selectMatch.found \/ f = 0)
              THEN sql
            ELSE IF /\ aggregateOnly
                    /\ FirstAggregate(selectMatch.part) > 0
                    /\ SelectColumns(selectMatch.part) # <<>>
              THEN Subquery(SelectColumns(selectMatch.part),
                            SubSeq(selectMatch.part, FirstAggregate(selectMatch.part),
                                   FirstAggregate(selectMatch.part) - 1
                                     + AggregateAt(selectMatch.part,
                                                   FirstAggregate(selectMatch.part))),
                            FromTable(f))
            ELSE IF g = 0 \/ ~selectMatch.found THEN sql
            ELSE GroupByFrom(g, GroupByAt(g) + RunIn(sql, GroupByAt(g), SpaceChars),
                             SelectColumns(selectMatch.part))
        hasAggregate == \E i \in 1..Len(sql) : AggregateAt(sql, i) > 0
        hasGroupBy ==
            \E i \in 1..Len(sql) :
                GroupByAt(i) > 0 /\ WordBoundary(sql, GroupByAt(i))
    IN  Fixed(hasAggregate /\ ~hasGroupBy,
              SelectMatch(sql),
              FirstOf({i \in 1..Len(sql) : FromTable(i) # ""}),
              FirstOf({i \in 1..Len(sql) :
                         /\ GroupByAt(i) > 0
                         /\ RunIn(sql, GroupByAt(i), SpaceChars) >= 1}))

-----------------------------------------------------------------------------
(* DocumentService.validateColumnNames *)

\* the sqlKeywords of validateColumnNames
ValidatorKeywords ==
    {"SELECT", "FROM", "WHERE", "GROUP", "BY", "HAVING", "ORDER", "JOIN", "LEFT",
     "RIGHT", "INNER", "OUTER", "ON", "AS", "AND", "OR", "NOT", "IN", "BETWEEN",
     "LIKE", "IS", "NULL", "ASC", "DESC", "LIMIT", "OFFSET"}

\* The result of the validation: valid, the error and the available columns.
\* A schema is [tableName, columns], columns being the Field of each column.
validateColumnNames(sql, tables) ==
    LET runs == WordRuns(sql, 1)
        Text(k) == SubSeq(sql, runs[k][1], runs[k][2] - 1)
        AfterSpace(p) == p + RunIn(sql, p, SpaceChars)
        \* (?:[=<>]|IS|IN|LIKE|BETWEEN|\+|-|\*|\/|%|,|\)|$) at position q
        Operator(q) ==
            \/ At(sql, q) \in {"=", "<", ">", "+", "-", "*", "/", "%", ",", ")"}
            \/ q > Len(sql)
            \/ \E k \in {"IS", "IN", "LIKE", "BETWEEN"} : MatchesAtCI(sql, q, k)
        \* derivedTablePattern: AS, white space, a word, then , or ) or the end
        derivedTableAliases ==
            {toLowerCase(Text(k + 1)) :
               k \in {j \in 1..(Len(runs) - 1) :
                        /\ toUpperCase(Text(j)) = "AS"
                        /\ runs[j + 1][1] > runs[j][2]
                        /\ runs[j + 1][1] = AfterSpace(runs[j][2])
                        /\ \/ At(sql, AfterSpace(runs[j + 1][2])) \in {",", ")"}
                           \/ AfterSpace(runs[j + 1][2]) > Len(sql)}}
        \* columnPattern: a word that stands before an operator
        IsColumnMatch(k) ==
            LET e == runs[k][2]
            IN  \/ /\ At(sql, e) = BT
                   /\ At(sql, e + 1) \in WordChars
                   /\ Operator(e + 1)
                \/ Operator(AfterSpace(e))
        \* tableColumnPattern: word.word, a word being taken once
        RECURSIVE TableColumnMatches(_)
        TableColumnMatches(k) ==
            IF k >= Len(runs) THEN <<>>
            ELSE IF At(sql, runs[k][2]) = "." /\ runs[k + 1][1] = runs[k][2] + 1
              THEN <<k>> \o TableColumnMatches(k + 2)
            ELSE TableColumnMatches(k + 1)
        IsKeyword(c) == toUpperCase(c) \in ValidatorKeywords
        columnMatches ==
            SelectSeq([k \in 1..Len(runs) |-> k],
                      LAMBDA k : /\ IsColumnMatch(k)
                                 /\ ~IsKeyword(Text(k))
                                 /\ toLowerCase(Text(k)) \notin derivedTableAliases)
        tableColumnMatches ==
            SelectSeq(TableColumnMatches(1),
                      LAMBDA k : /\ toLowerCase(Text(k)) \notin derivedTableAliases
                                 /\ ~IsKeyword(Text(k + 1)))
        referencedColumns ==
            Unique([j \in 1..Len(columnMatches) |-> Text(columnMatches[j])]
                     \o [j \in 1..Len(tableColumnMatches) |->
                           Text(tableColumnMatches[j] + 1)])
        RECURSIVE Fields(_)
        Fields(k) ==
            IF k > Len(tables) THEN <<>>
            ELSE [j \in 1..(2 * Len(tables[k].columns)) |->
                    IF j % 2 = 1 THEN tables[k].columns[(j + 1) \div 2]
                    ELSE toLowerCase(tables[k].columns[j \div 2])]
                   \o Fields(k + 1)
        availableColumns == Unique(Fields(1))
        available == {availableColumns[j] : j \in 1..Len(availableColumns)}
        invalidColumns ==
            SelectSeq(referencedColumns,
                      LAMBDA c : /\ c \notin available
                                 /\ toLowerCase(c) \notin available
                                 /\ ~IsKeyword(c))
    IN  IF invalidColumns # <<>>
          THEN [valid |-> FALSE,
                error |-> "Invalid column(s): " \o Join(invalidColumns, ", "),
                availableColumns |-> availableColumns]
          ELSE [valid |-> TRUE, error |-> "", availableColumns |-> <<>>]

-----------------------------------------------------------------------------
(* Spec: storeProcessedData of one upload, concurrent with one query request *)

\* the source of the model's upload and its columns (the Field of SHOW COLUMNS)
SourceFile == "sales.xlsx"
TableColumns == <<"region", "total_revenue">>
\* the selected source of the request: the stored file name or the catalog name
SelectedSources == {StoredFileName(SourceFile), SanitizeTableName(SourceFile)}

Providers == {"ollama", "openai", "none"}
Questions == {"", "total revenue by region"}

\* What the LLM may answer to a generation call. The empty answer stands for
\* every failed call: sendToOllama throws on it as it throws on a time-out.
LLMResponses ==
    {"",
     "INVALID_QUERY",
     "INVALID_QUERY: the tables hold no dates.",
     "SELECT * FROM sales;",
     "SELECT * FROM sales LIMIT 5;",
     "SELECT region FROM sales;",
     "SELECT revenue FROM sales;",
     "SELECT " \o BT \o "revenue" \o BT \o " FROM sales WHERE "
       \o BT \o "revenue" \o BT \o " > 5;",
     "SELECT sales.revenue FROM sales;",
     "SELECT region FROM sales WHERE revenue > 5",
     Fence \o "sql\nSELECT region, total_revenue FROM Sales\n" \o Fence
       \o "\nThis query lists the revenue.",
     "SELECT region FROM " \o UploadTimestamp \o "-sales.xlsx"}

\* the columns getSourceSchemas reads from the table of the upload
ResolvedSchemas ==
    <<[tableName |-> SanitizeTableName(SourceFile), columns |-> TableColumns]>>

\* what the engine may answer to a statement it cannot run
OffendingColumn == "revenue"
EngineErrors ==
    {[name |-> "SequelizeDatabaseError",
      message |-> "You have an error in your SQL syntax"],
     [name |-> "SequelizeDatabaseError",
      message |-> "Unknown column '" \o OffendingColumn \o "' in 'field list'"],
     [name |-> "SequelizeDatabaseError",
      message |-> "Table 'dataask.sales' doesn't exist"],
     [name |-> "SequelizeDatabaseError",
      message |-> "Connection lost: The server closed the connection."],
     [name |-> "SequelizeConnectionRefusedError",
      message |-> "connect ECONNREFUSED 127.0.0.1:3306"]}
NoEngineError == [name |-> "", message |-> ""]

\* retry of the sequelize instance: the attempts of one query, and the
\* errors after which it is attempted again
RetryMax == 3
RetryMatch ==
    {"SequelizeConnectionError", "SequelizeConnectionRefusedError",
     "SequelizeHostNotFoundError", "SequelizeHostNotReachableError",
     "SequelizeInvalidConnectionError", "SequelizeConnectionTimedOutError",
     "SequelizeAccessDeniedError"}
Retried(err) ==
    \E pat \in RetryMatch : includes(err.name \o ": " \o err.message, pat)

\* the engine parses a statement only if it starts with a verb of SQL
EngineAccepts(sql) ==
    \E verb \in {"SELECT", "INSERT", "UPDATE", "DELETE", "SHOW", "WITH"} :
        MatchesAtCI(trim(sql), 1, verb) /\ WordBoundary(trim(sql), Len(verb) + 1)

\* the catch of executeQuery: the message of the error it throws
QueryFailure(message) ==
    LET q1 == FirstIndexOf(message, "Unknown column '")
        name == SubSeq(message, q1 + 16,
                       q1 + 15 + RunNotIn(message, q1 + 16, {"'"}))
        columnName == IF /\ RunNotIn(message, q1 + 16, {"'"}) >= 1
                         /\ At(message, q1 + 16 + Len(name)) = "'"
                        THEN name ELSE "unknown"
    IN  IF includes(message, "Unknown column")
          THEN "Query execution failed: Unknown column '" \o columnName
                 \o "' in query. Available columns are: "
                 \o Join(IF schemas = <<>> THEN <<>> ELSE schemas[1].columns, ", ")
          ELSE "Query execution failed: " \o message

StageOrder ==
    <<"Received", "SchemaResolved", "SQLGenerated", "Repaired", "Validated",
      "Executed", "Answered">>

specVars == <<tableState, catalog, upPc, qPc, provider, question, schemas,
              llmCalls, rawResponse, firstStatement, correction, generated,
              sqlQuery, validatedText, executedText, engineCalls, answerCalls,
              stages, failedAt, qError, engineError, execute, reply, applied>>
dbVars == <<tableState, catalog, upPc>>
queryVars == <<qPc, provider, question, schemas, llmCalls, rawResponse,
               firstStatement, correction, generated, sqlQuery, validatedText,
               executedText, engineCalls, answerCalls, stages, failedAt, qError,
               engineError, execute, reply, applied>>

InitSpec ==
    /\ tableState = "absent"
    /\ catalog = 0
    /\ upPc = "start"
    /\ qPc = "New"
    /\ provider \in Providers
    /\ question \in Questions
    /\ schemas = <<>>
    /\ llmCalls = 0
    /\ rawResponse = ""
    /\ firstStatement = ""
    /\ correction = ""
    /\ generated = ""
    /\ sqlQuery = ""
    /\ validatedText = ""
    /\ executedText = ""
    /\ engineCalls = 0
    /\ answerCalls = 0
    /\ stages = <<>>
    /\ failedAt = ""
    /\ qError = ""
    /\ engineError = NoEngineError
    /\ execute \in BOOLEAN
    /\ reply = "none"
    /\ applied = <<>>

IdleSpec ==
    /\ tableState = "absent"
    /\ catalog = 0
    /\ upPc = "idle"
    /\ qPc = "idle"
    /\ provider = "none"
    /\ question = ""
    /\ schemas = <<>>
    /\ llmCalls = 0
    /\ rawResponse = ""
    /\ firstStatement = ""
    /\ correction = ""
    /\ generated = ""
    /\ sqlQuery = ""
    /\ validatedText = ""
    /\ executedText = ""
    /\ engineCalls = 0
    /\ answerCalls = 0
    /\ stages = <<>>
    /\ failedAt = ""
    /\ qError = ""
    /\ engineError = NoEngineError
    /\ execute = FALSE
    /\ reply = "none"
    /\ applied = <<>>

\* storeProcessedData, lines 154-196: sequelize.authenticate(), DataSource.sync
\* and the checks of the processed data; each may throw
PrepareStore ==
    /\ upPc = "start"
    /\ \E ok \in BOOLEAN : upPc' = IF ok THEN "prepared" ELSE "failed"
    /\ UNCHANGED <<tableState, catalog>>

\* await DynamicModel.sync(): CREATE TABLE IF NOT EXISTS
CreateTable ==
    /\ upPc = "prepared"
    /\ \E ok \in BOOLEAN :
         IF ok
           THEN /\ tableState' = IF tableState = "absent" THEN "created" ELSE tableState
                /\ upPc' = "tableCreated"
           ELSE /\ upPc' = "failed"
                /\ UNCHANGED tableState
    /\ UNCHANGED catalog

\* await DynamicModel.bulkCreate(data)
BulkLoad ==
    /\ upPc = "tableCreated"
    /\ \E ok \in BOOLEAN :
         IF ok
           THEN /\ tableState' = "loaded"
                /\ upPc' = "rowsLoaded"
           ELSE /\ upPc' = "failed"
                /\ UNCHANGED tableState
    /\ UNCHANGED catalog

\* await DataSource.create(..); the catch of storeProcessedData only rethrows
WriteCatalog ==
    /\ upPc = "rowsLoaded"
    /\ \E ok \in BOOLEAN :
         IF ok
           THEN /\ catalog' = catalog + 1
                /\ upPc' = "done"
           ELSE /\ upPc' = "failed"
                /\ UNCHANGED catalog
    /\ UNCHANGED tableState

\* the request enters a stage
Enter(stage) ==
    /\ qPc' = stage
    /\ stages' = Append(stages, stage)
    /\ UNCHANGED <<failedAt, qError>>

\* Fail without the throw: the error is noted and the request goes on as if
\* the stage had been passed
FailIgnored(stage, message) ==
    /\ qPc' = stage
    /\ failedAt' = stage
    /\ qError' = message
    /\ UNCHANGED stages

\* the action of a stage throws: the request ends
Fail(stage, message) ==
    /\ qPc' = "Failed"
    /\ failedAt' = stage
    /\ qError' = message
    /\ UNCHANGED stages

\* executeQuery, lines 405-407
Receive ==
    /\ qPc = "New"
    /\ IF question = ""
         THEN Fail("Received", "Question and selected sources are required")
         ELSE Enter("Received")
    /\ UNCHANGED <<applied, execute, reply, engineError, provider, question, schemas, llmCalls, rawResponse,
                   firstStatement, correction, generated, sqlQuery, validatedText,
                   executedText, engineCalls, answerCalls>>

\* executeQuery, lines 414-421: sequelize.authenticate() and getSourceSchemas,
\* which asks the database, not the catalog, for the columns of the table
ResolveSchemas ==
    /\ qPc = "Received"
    /\ \E source \in SelectedSources, connected \in BOOLEAN :
         LET tableName == SourceTableName(source)
         IN  IF ~connected
               THEN /\ Fail("SchemaResolved", QueryFailure("connect ECONNREFUSED"))
                    /\ UNCHANGED schemas
             ELSE IF tableState = "absent" \/ tableName # SanitizeTableName(SourceFile)
               THEN /\ Fail("SchemaResolved",
                            QueryFailure("Table '" \o tableName \o "' doesn't exist"))
                    /\ UNCHANGED schemas
             ELSE /\ schemas' = ResolvedSchemas
                  /\ Enter("SchemaResolved")
    /\ UNCHANGED <<applied, execute, reply, engineError, provider, question, llmCalls, rawResponse, firstStatement,
                   correction, generated, sqlQuery, validatedText, executedText,
                   engineCalls, answerCalls>>

\* generateSQLQuery returns sql; executeQuery, lines 437-439, refuses a blank
ReturnGenerated(sql) ==
    /\ generated' = sql
    /\ sqlQuery' = sql
    /\ IF trim(sql) = ""
         THEN Fail("SQLGenerated", QueryFailure("Failed to generate SQL query"))
         ELSE Enter("SQLGenerated")

\* OllamaService.generateSQLQuery, lines 59-70 and 85: the first call
GenerateSQL ==
    /\ qPc = "SchemaResolved"
    /\ provider = "ollama"
    /\ llmCalls' = llmCalls + 1
    /\ \E response \in LLMResponses :
       \E cleanedResponse \in {extractSQLQuery(response)} :
         LET i == FirstIndexOf(response, "INVALID_QUERY")
             explanation == trim(Before(response, i) \o From(response, i + 13))
         IN  /\ rawResponse' = response
             /\ IF response = ""
                  THEN /\ Fail("SQLGenerated", QueryFailure(
                            "Invalid response from Ollama API: Missing response field"))
                       /\ UNCHANGED <<firstStatement, generated, sqlQuery, applied>>
                ELSE IF cleanedResponse.error # ""
                  THEN /\ Fail("SQLGenerated", QueryFailure(cleanedResponse.error))
                       /\ applied' = cleanedResponse.applied
                       /\ UNCHANGED <<firstStatement, generated, sqlQuery>>
                ELSE IF cleanedResponse.sql = "INVALID_QUERY"
                  THEN /\ Fail("SQLGenerated", QueryFailure(
                            "Could not generate SQL query: " \o explanation
                              \o ". Please try rephrasing your question."))
                       /\ applied' = cleanedResponse.applied \o <<"sentinel">>
                       /\ UNCHANGED <<firstStatement, generated, sqlQuery>>
                ELSE IF HasSelectStar(cleanedResponse.sql)
                  THEN /\ firstStatement' = cleanedResponse.sql
                       /\ applied' = cleanedResponse.applied
                                        \o <<"sentinel", "select-star">>
                       /\ qPc' = "Correcting"
                       /\ UNCHANGED <<generated, sqlQuery, stages, failedAt, qError>>
                ELSE /\ firstStatement' = cleanedResponse.sql
                     /\ applied' = cleanedResponse.applied
                                      \o <<"sentinel", "select-star">>
                     /\ ReturnGenerated(cleanedResponse.sql)
    /\ UNCHANGED <<execute, reply, engineError, provider, question, schemas, correction, validatedText,
                   executedText, engineCalls, answerCalls>>

\* the corrective call without the test of line 81: the correction is returned
\* whatever it selects
GenerateCorrectionUnchecked ==
    /\ qPc = "Correcting"
    /\ llmCalls' = llmCalls + 1
    /\ \E response \in LLMResponses :
       \E fixedQuery \in {extractSQLQuery(response)} :
             IF response = ""
               THEN /\ Fail("SQLGenerated", QueryFailure(
                         "Invalid response from Ollama API: Missing response field"))
                    /\ UNCHANGED <<correction, generated, sqlQuery>>
             ELSE IF fixedQuery.error # ""
               THEN /\ Fail("SQLGenerated", QueryFailure(fixedQuery.error))
                    /\ UNCHANGED <<correction, generated, sqlQuery>>
             ELSE /\ correction' = fixedQuery.sql
                  /\ ReturnGenerated(fixedQuery.sql)
    /\ UNCHANGED <<applied, execute, reply, engineError, provider, question, schemas, rawResponse, firstStatement,
                   validatedText, executedText, engineCalls, answerCalls>>

\* OllamaService.generateSQLQuery, lines 71-85: the corrective call
GenerateCorrection ==
    /\ qPc = "Correcting"
    /\ llmCalls' = llmCalls + 1
    /\ \E response \in LLMResponses :
       \E fixedQuery \in {extractSQLQuery(response)} :
             IF response = ""
               THEN /\ Fail("SQLGenerated", QueryFailure(
                         "Invalid response from Ollama API: Missing response field"))
                    /\ UNCHANGED <<correction, generated, sqlQuery>>
             ELSE IF fixedQuery.error # ""
               THEN /\ Fail("SQLGenerated", QueryFailure(fixedQuery.error))
                    /\ UNCHANGED <<correction, generated, sqlQuery>>
             ELSE /\ correction' = fixedQuery.sql
                  /\ ReturnGenerated(IF HasSelectStar(fixedQuery.sql)
                                       THEN firstStatement ELSE fixedQuery.sql)
    /\ UNCHANGED <<applied, execute, reply, engineError, provider, question, schemas, rawResponse, firstStatement,
                   validatedText, executedText, engineCalls, answerCalls>>

\* OpenAIService.generateSQLQuery, lines 69-73: one call, the content trimmed
\* and returned; extractSQLQuery and the tests of lines 62 and 67 of
\* OllamaService are no part of it
GenerateOpenAI ==
    /\ qPc = "SchemaResolved"
    /\ provider = "openai"
    /\ llmCalls' = llmCalls + 1
    /\ \E response \in LLMResponses :
         /\ rawResponse' = response
         /\ IF response = ""
              THEN /\ Fail("SQLGenerated",
                           QueryFailure("Invalid response from OpenAI API"))
                   /\ UNCHANGED <<firstStatement, generated, sqlQuery>>
              ELSE /\ firstStatement' = trim(response)
                   /\ ReturnGenerated(trim(response))
    /\ UNCHANGED <<applied, execute, reply, engineError, provider, question, schemas, correction, validatedText,
                   executedText, engineCalls, answerCalls>>

\* executeQuery, lines 428-434: no service, gpt-4o being selected without a key
GenerateNone ==
    /\ qPc = "SchemaResolved"
    /\ provider = "none"
    /\ Fail("SQLGenerated", QueryFailure(
         "OpenAI API key is required for using GPT-4o model. Please set your API key first."))
    /\ UNCHANGED <<applied, execute, reply, engineError, provider, question, schemas, llmCalls, rawResponse,
                   firstStatement, correction, generated, sqlQuery, validatedText,
                   executedText, engineCalls, answerCalls>>

\* executeQuery, lines 441-479: table names, value quoting (line 475), GROUP
\* BY (line 479)
Repair ==
    /\ qPc = "SQLGenerated"
    /\ sqlQuery' = Apply(fixGroupByIssues,
                       Apply(FixValueQuoting, RepairTableNames(sqlQuery, schemas)))
    /\ applied' = applied \o <<"literal-quoting", "group-by">>
    /\ Enter("Repaired")
    /\ UNCHANGED <<execute, reply, engineError, provider, question, schemas, llmCalls, rawResponse,
                   firstStatement, correction, generated, validatedText,
                   executedText, engineCalls, answerCalls>>

\* executeQuery without its lines 485-488: the statement goes to the engine
\* as the repairs left it
ValidateSkipped ==
    /\ qPc = "Repaired"
    /\ Enter("Validated")
    /\ UNCHANGED <<applied, execute, reply, engineError, provider, question, schemas, llmCalls, rawResponse,
                   firstStatement, correction, generated, sqlQuery, validatedText,
                   executedText, engineCalls, answerCalls>>

\* executeQuery, lines 485-488
Validate ==
    /\ qPc = "Repaired"
    /\ \E validationResult \in {validateColumnNames(sqlQuery, schemas)} :
       LET available == IF validationResult.availableColumns = <<>> THEN "None"
                        ELSE Join(validationResult.availableColumns, ", ")
       IN  IF validationResult.valid
             THEN /\ validatedText' = sqlQuery
                  /\ Enter("Validated")
             ELSE /\ Fail("Validated", QueryFailure(
                       "SQL validation failed: " \o validationResult.error
                         \o ". Available columns are: " \o available))
                  /\ UNCHANGED validatedText
    /\ UNCHANGED <<applied, execute, reply, engineError, provider, question, schemas, llmCalls, rawResponse,
                   firstStatement, correction, generated, sqlQuery, executedText,
                   engineCalls, answerCalls>>

\* executeQuery, line 491: sequelize.query(sqlQuery), one attempt of it. The
\* sequelize instance attempts the query again after an error of its retry
\* list, up to RetryMax attempts in all.
Execute ==
    /\ qPc = "Validated"
    /\ executedText' = sqlQuery
    /\ engineCalls' = engineCalls + 1
    /\ \/ /\ EngineAccepts(sqlQuery)
          /\ Enter("Executed")
          /\ UNCHANGED engineError
       \/ \E err \in EngineErrors :
            /\ engineError' = err
            /\ IF Retried(err) /\ engineCalls + 1 < RetryMax
                 THEN UNCHANGED <<qPc, stages, failedAt, qError>>
                 ELSE Fail("Executed", QueryFailure(err.message))
    /\ UNCHANGED <<applied, execute, reply, provider, question, schemas, llmCalls, rawResponse,
                   firstStatement, correction, generated, sqlQuery, validatedText,
                   answerCalls>>

\* executeQuery, lines 493-513: generateNaturalLanguageResponse and the return
Answer ==
    /\ qPc = "Executed"
    /\ answerCalls' = answerCalls + 1
    /\ \E ok \in BOOLEAN :
         IF ok THEN Enter("Answered")
         ELSE Fail("Answered", QueryFailure("Empty response from LLM"))
    /\ UNCHANGED <<applied, execute, reply, engineError, provider, question, schemas, llmCalls, rawResponse,
                   firstStatement, correction, generated, sqlQuery, validatedText,
                   executedText, engineCalls>>

\* POST /api/query, lines 116-140: the answer of the route. executeQuery has
\* run in both branches; without execute only its sql is returned.
Respond ==
    /\ qPc \in {"Answered", "Failed"}
    /\ reply = "none"
    /\ reply' = IF qPc = "Failed" THEN "error"
                ELSE IF execute THEN "full" ELSE "sql"
    /\ UNCHANGED <<qPc, provider, question, schemas, llmCalls, rawResponse,
                   firstStatement, correction, generated, sqlQuery, validatedText,
                   executedText, engineCalls, answerCalls, stages, failedAt,
                   qError, engineError, execute, applied>>

-----------------------------------------------------------------------------
(* The connectors and their factories *)

EngineKinds == {"mysql", "postgres", "mssql", "oracle", "sqlite"}
Factories == {"DatabaseConnectorFactory", "DatabaseFactory"}

\* the cases of the switch of each factory
FactoryKinds(fac) ==
    IF fac = "DatabaseConnectorFactory"
      THEN {"oracle", "postgres", "mssql", "mysql", "sqlite"}
      ELSE {"mysql", "postgres", "mssql", "oracle"}

\* createConnector(type, config) of the factory: the connector, or the error
\* of the default case
createConnector(fac, type) ==
    IF type \in FactoryKinds(fac)
      THEN [ok |-> TRUE, engine |-> type, message |-> ""]
      ELSE [ok |-> FALSE, engine |-> "",
            message |-> "Unsupported database type: " \o type]

-----------------------------------------------------------------------------
(* SpecCache: DatabaseService, two calls at a time on one stored data source *)

Calls == {1, 2}
\* the id of the stored data source, and the id addDataSource gives to the
\* record of each call
StoredId == 1
NewId(p) == StoredId + p
DataSourceIds == {StoredId} \cup {NewId(p) : p \in Calls}
ServiceMethods == {"executeQuery", "addDataSource", "removeDataSource"}

InitCache ==
    /\ connectors = [id \in DataSourceIds |-> 0]
    /\ dsType \in EngineKinds
    /\ dsRecord = TRUE
    /\ svcOp \in [Calls -> ServiceMethods]
    /\ svcPc = [p \in Calls |-> "start"]
    /\ svcConn = [p \in Calls |-> "none"]
    /\ svcUses = [p \in Calls |-> 0]

IdleCache ==
    /\ connectors = [id \in DataSourceIds |-> 0]
    /\ dsType = "mysql"
    /\ dsRecord = TRUE
    /\ svcOp = [p \in Calls |-> "executeQuery"]
    /\ svcPc = [p \in Calls |-> "idle"]
    /\ svcConn = [p \in Calls |-> "none"]
    /\ svcUses = [p \in Calls |-> 0]

\* the call p goes to the position pc
Goto(p, pc) == svcPc' = [svcPc EXCEPT ![p] = pc]

\* DatabaseFactory.createConnector(..) and the call of connect(), up to its await
BuildAndConnect(p) ==
    IF createConnector("DatabaseFactory", dsType).ok
      THEN /\ svcConn' = [svcConn EXCEPT ![p] = "created"]
           /\ Goto(p, "connecting")
      ELSE /\ Goto(p, "failed")
           /\ UNCHANGED svcConn

\* executeQuery, lines 61-62 and 77: this.connectors.get(dataSourceId)
ExecLookup(p) ==
    /\ svcOp[p] = "executeQuery"
    /\ svcPc[p] = "start"
    /\ IF connectors[StoredId] # 0
         THEN /\ svcUses' = [svcUses EXCEPT ![p] = connectors[StoredId]]
              /\ Goto(p, "query")
         ELSE /\ Goto(p, "find")
              /\ UNCHANGED svcUses
    /\ UNCHANGED <<connectors, dsType, dsRecord, svcOp, svcConn>>

\* executeQuery, lines 63-72: findByPk resolves, the connector is built and
\* connect() is called
ExecFind(p) ==
    /\ svcOp[p] = "executeQuery"
    /\ svcPc[p] = "find"
    /\ IF dsRecord
         THEN BuildAndConnect(p)
         ELSE /\ Goto(p, "failed")
              /\ UNCHANGED svcConn
    /\ UNCHANGED <<connectors, dsType, dsRecord, svcOp, svcUses>>

\* executeQuery with line 73 before line 72: the connector is put into the
\* cache however connect() ends
ExecConnectDoneCachedFirst(p) ==
    /\ svcOp[p] = "executeQuery"
    /\ svcPc[p] = "connecting"
    /\ connectors' = [connectors EXCEPT ![StoredId] = p]
    /\ \E ok \in BOOLEAN :
         IF ok
           THEN /\ svcConn' = [svcConn EXCEPT ![p] = "connected"]
                /\ svcUses' = [svcUses EXCEPT ![p] = p]
                /\ Goto(p, "query")
           ELSE /\ svcConn' = [svcConn EXCEPT ![p] = "failed"]
                /\ Goto(p, "failed")
                /\ UNCHANGED svcUses
    /\ UNCHANGED <<dsType, dsRecord, svcOp>>

\* executeQuery, lines 72-74: connect() resolves, the connector is cached and
\* the query is sent; or connect() rejects
ExecConnectDone(p) ==
    /\ svcOp[p] = "executeQuery"
    /\ svcPc[p] = "connecting"
    /\ \E ok \in BOOLEAN :
         IF ok
           THEN /\ svcConn' = [svcConn EXCEPT ![p] = "connected"]
                /\ connectors' = [connectors EXCEPT ![StoredId] = p]
                /\ svcUses' = [svcUses EXCEPT ![p] = p]
                /\ Goto(p, "query")
           ELSE /\ svcConn' = [svcConn EXCEPT ![p] = "failed"]
                /\ Goto(p, "failed")
                /\ UNCHANGED <<connectors, svcUses>>
    /\ UNCHANGED <<dsType, dsRecord, svcOp>>

\* connector.executeQuery(query) resolves or rejects; a connector without its
\* connection throws 'Database connection not established'
ExecQueryDone(p) ==
    /\ svcOp[p] = "executeQuery"
    /\ svcPc[p] = "query"
    /\ \E ok \in BOOLEAN :
         Goto(p, IF ok /\ svcConn[svcUses[p]] = "connected" THEN "done" ELSE "failed")
    /\ UNCHANGED <<connectors, dsType, dsRecord, svcOp, svcConn, svcUses>>

\* addDataSource, lines 28-29
AddStart(p) ==
    /\ svcOp[p] = "addDataSource"
    /\ svcPc[p] = "start"
    /\ BuildAndConnect(p)
    /\ UNCHANGED <<connectors, dsType, dsRecord, svcOp, svcUses>>

\* addDataSource, lines 29-32: connect() resolves and getSchema() is called
AddConnectDone(p) ==
    /\ svcOp[p] = "addDataSource"
    /\ svcPc[p] = "connecting"
    /\ \E ok \in BOOLEAN :
         IF ok
           THEN /\ svcConn' = [svcConn EXCEPT ![p] = "connected"]
                /\ Goto(p, "schema")
           ELSE /\ svcConn' = [svcConn EXCEPT ![p] = "failed"]
                /\ Goto(p, "failed")
    /\ UNCHANGED <<connectors, dsType, dsRecord, svcOp, svcUses>>

\* addDataSource, lines 32-49: getSchema() resolves and DataSource.create is
\* called
AddSchemaDone(p) ==
    /\ svcOp[p] = "addDataSource"
    /\ svcPc[p] = "schema"
    /\ \E ok \in BOOLEAN : Goto(p, IF ok THEN "record" ELSE "failed")
    /\ UNCHANGED <<connectors, dsType, dsRecord, svcOp, svcConn, svcUses>>

\* addDataSource, lines 35-54: the record is written and the connector cached
AddRecordDone(p) ==
    /\ svcOp[p] = "addDataSource"
    /\ svcPc[p] = "record"
    /\ \E ok \in BOOLEAN :
         IF ok
           THEN /\ connectors' = [connectors EXCEPT ![NewId(p)] = p]
                /\ Goto(p, "done")
           ELSE /\ Goto(p, "failed")
                /\ UNCHANGED connectors
    /\ UNCHANGED <<dsType, dsRecord, svcOp, svcConn, svcUses>>

\* removeDataSource, lines 89-91: the cached connector, if any, is asked to
\* disconnect
RemoveLookup(p) ==
    /\ svcOp[p] = "removeDataSource"
    /\ svcPc[p] = "start"
    /\ IF connectors[StoredId] # 0
         THEN /\ svcUses' = [svcUses EXCEPT ![p] = connectors[StoredId]]
              /\ Goto(p, "disconnecting")
         ELSE /\ Goto(p, "destroy")
              /\ UNCHANGED svcUses
    /\ UNCHANGED <<connectors, dsType, dsRecord, svcOp, svcConn>>

\* removeDataSource, lines 91-95: disconnect() resolves, the entry is deleted
RemoveDisconnectDone(p) ==
    /\ svcOp[p] = "removeDataSource"
    /\ svcPc[p] = "disconnecting"
    /\ \E ok \in BOOLEAN :
         IF ok
           THEN /\ svcConn' = [svcConn EXCEPT ![svcUses[p]] = "closed"]
                /\ connectors' = [connectors EXCEPT ![StoredId] = 0]
                /\ Goto(p, "destroy")
           ELSE /\ Goto(p, "failed")
                /\ UNCHANGED <<connectors, svcConn>>
    /\ UNCHANGED <<dsType, dsRecord, svcOp, svcUses>>

\* removeDataSource, lines 95-98: the record is destroyed
RemoveDestroy(p) ==
    /\ svcOp[p] = "removeDataSource"
    /\ svcPc[p] = "destroy"
    /\ dsRecord' = FALSE
    /\ Goto(p, "done")
    /\ UNCHANGED <<connectors, dsType, svcOp, svcConn, svcUses>>

-----------------------------------------------------------------------------
(* SpecConn: one connector, built by a factory and driven by a caller *)

\* the callers: the routes POST /test, GET /tables/:id and POST /schemas,
\* DatabaseConnectionService.testConnection, and a caller that calls
\* connect(), disconnect(), executeQuery() and getSchema() in any order
Routes == {"POST /test", "GET /tables/:id", "POST /schemas"}
Callers == Routes \cup {"testConnection", "direct"}
\* a type outside of DatabaseType
UnknownKind == "mongodb"
RequestedTypes == EngineKinds \cup {UnknownKind}
MaxCalls == 3

\* the engine as the messages of its connector name it
EngineLabel(engine) ==
    CASE engine = "mysql" -> "MySQL"
      [] engine = "postgres" -> "PostgreSQL"
      [] engine = "mssql" -> "SQL Server"
      [] engine = "oracle" -> "Oracle"
      [] OTHER -> "SQLite"

\* why the driver may refuse to connect, and what it says then
ConnectFaults ==
    {"authentication failure", "network unreachable", "unknown database"}
DriverMessage(cause) ==
    CASE cause = "authentication failure" ->
           "Access denied for user 'root'@'localhost' (using password: YES)"
      [] cause = "network unreachable" -> "connect ECONNREFUSED 127.0.0.1:3306"
      [] cause = "unknown database" -> "Unknown database 'sales'"
      [] OTHER -> "read ECONNRESET"

\* the connectors that define getTables
HasGetTables(engine) == engine \in {"mysql", "postgres", "oracle"}
\* the tables of the database
DatabaseTables == <<"orders", "sales">>

NoConnector == [engine |-> "", handle |-> "null"]
NoError == [name |-> "", message |-> ""]
Error(message) == [name |-> "Error", message |-> message]
NoResult == [returns |-> "", success |-> FALSE, error |-> "", tables |-> <<>>]

RECURSIVE ScriptsOfLen(_)
ScriptsOfLen(n) ==
    IF n = 0 THEN {<<>>}
    ELSE {Append(sc, mth) : sc \in ScriptsOfLen(n - 1),
                            mth \in {"connect", "disconnect", "executeQuery",
                                     "getSchema"}}
\* the calls each caller makes on the connector, in their order
ScriptsOf(c) ==
    IF c \in {"POST /test", "GET /tables/:id"}
      THEN {<<"connect", "getTables", "disconnect">>}
    ELSE IF c = "POST /schemas" THEN {<<"connect", "getSchema", "disconnect">>}
    ELSE IF c = "testConnection" THEN {<<"connect", "disconnect">>}
    ELSE UNION {ScriptsOfLen(n) : n \in 1..MaxCalls}

connVars == <<caller, factory, reqType, connector, script, thrown, log, tableList,
              result, pcC>>

InitConn ==
    /\ caller \in Callers
    /\ factory \in (IF caller = "direct" THEN Factories
                    ELSE {"DatabaseConnectorFactory"})
    /\ reqType \in RequestedTypes
    /\ script \in ScriptsOf(caller)
    /\ connector = NoConnector
    /\ thrown = NoError
    /\ log = <<>>
    /\ tableList = <<>>
    /\ result = NoResult
    /\ pcC = "new"

IdleConn ==
    /\ caller = "direct"
    /\ factory = "DatabaseConnectorFactory"
    /\ reqType = "mysql"
    /\ script = <<>>
    /\ connector = NoConnector
    /\ thrown = NoError
    /\ log = <<>>
    /\ tableList = <<>>
    /\ result = NoResult
    /\ pcC = "idle"

\* the call returns
Pass(method) ==
    /\ thrown' = NoError
    /\ log' = Append(log, [method |-> method, fault |-> ""])
    /\ script' = Tail(script)

\* the call throws err; only the direct caller goes on after an error
Raise(method, fault, err) ==
    /\ thrown' = err
    /\ log' = Append(log, [method |-> method, fault |-> fault])
    /\ script' = IF caller = "direct" THEN Tail(script) ELSE <<>>

\* createConnector(type, config) of the caller's factory
CreateConnector ==
    /\ pcC = "new"
    /\ pcC' = "run"
    /\ \E built \in {createConnector(factory, reqType)} :
         IF built.ok
           THEN /\ connector' = [engine |-> built.engine, handle |-> "null"]
                /\ thrown' = NoError
                /\ log' = Append(log, [method |-> "createConnector", fault |-> ""])
                /\ UNCHANGED script
           ELSE /\ thrown' = Error(built.message)
                /\ log' = Append(log, [method |-> "createConnector",
                                       fault |-> "unsupported type"])
                /\ script' = <<>>
                /\ UNCHANGED connector
    /\ UNCHANGED <<caller, factory, reqType, tableList, result>>

\* connect() of the five connectors: the driver connects, or the error of
\* the catch is thrown. PostgresConnector keeps the Pool it made before the
\* test query failed; the others assign their handle only on success.
Connect ==
    /\ pcC = "run"
    /\ script # <<>>
    /\ Head(script) = "connect"
    /\ \E cause \in {""} \cup ConnectFaults :
         IF cause = ""
           THEN /\ connector' = [connector EXCEPT !.handle = "connected"]
                /\ Pass("connect")
           ELSE /\ connector' = [connector EXCEPT !.handle =
                                   IF connector.engine = "postgres" THEN "pool" ELSE @]
                /\ Raise("connect", cause,
                         Error("Failed to connect to " \o EngineLabel(connector.engine)
                                 \o " database: " \o DriverMessage(cause)))
    /\ UNCHANGED <<caller, factory, reqType, tableList, result, pcC>>

\* disconnect() without the test of the handle
DisconnectUnguarded ==
    /\ pcC = "run"
    /\ script # <<>>
    /\ Head(script) = "disconnect"
    /\ IF connector.handle = "null"
         THEN /\ Raise("disconnect", "no handle",
                       Error("Failed to disconnect from "
                               \o EngineLabel(connector.engine) \o " database: "
                               \o "Cannot read properties of null (reading 'end')"))
              /\ UNCHANGED connector
         ELSE /\ connector' = [connector EXCEPT !.handle = "null"]
              /\ Pass("disconnect")
    /\ UNCHANGED <<caller, factory, reqType, tableList, result, pcC>>

\* disconnect() of the five connectors: nothing without a handle; else the
\* handle is closed and set to null, or the error of the catch is thrown
Disconnect ==
    /\ pcC = "run"
    /\ script # <<>>
    /\ Head(script) = "disconnect"
    /\ IF connector.handle = "null"
         THEN /\ Pass("disconnect")
              /\ UNCHANGED connector
         ELSE \E ok \in BOOLEAN :
                IF ok \/ connector.handle = "pool"
                  THEN /\ connector' = [connector EXCEPT !.handle = "null"]
                       /\ Pass("disconnect")
                  ELSE /\ Raise("disconnect", "close failed",
                                Error("Failed to disconnect from "
                                        \o EngineLabel(connector.engine)
                                        \o " database: " \o DriverMessage("")))
                       /\ UNCHANGED connector
    /\ UNCHANGED <<caller, factory, reqType, tableList, result, pcC>>

\* connector.getTables(): MSSQLConnector and SQLiteConnector define none
GetTables ==
    /\ pcC = "run"
    /\ script # <<>>
    /\ Head(script) = "getTables"
    /\ IF ~HasGetTables(connector.engine)
         THEN /\ Raise("getTables", "no such method",
                       [name |-> "TypeError",
                        message |-> "connector.getTables is not a function"])
              /\ UNCHANGED tableList
       ELSE IF connector.handle = "null"
         THEN /\ Raise("getTables", "not connected",
                       Error("Database connection not established"))
              /\ UNCHANGED tableList
       ELSE \E ok \in BOOLEAN :
              IF ok /\ connector.handle = "connected"
                THEN /\ tableList' = DatabaseTables
                     /\ Pass("getTables")
                ELSE /\ Raise("getTables", "query failed",
                              Error((IF connector.engine = "postgres"
                                       THEN "Failed to execute query: "
                                       ELSE "Failed to fetch tables: ")
                                      \o DriverMessage("")))
                     /\ UNCHANGED tableList
    /\ UNCHANGED <<caller, factory, reqType, connector, result, pcC>>

\* connector.executeQuery(query) of the five connectors: without a handle the
\* error of the guard is thrown; else the query is sent to the engine
ExecuteQuery ==
    /\ pcC = "run"
    /\ script # <<>>
    /\ Head(script) = "executeQuery"
    /\ IF connector.handle = "null"
         THEN Raise("executeQuery", "not connected",
                    Error("Database connection not established"))
         ELSE \E ok \in BOOLEAN :
                IF ok /\ connector.handle = "connected"
                  THEN Pass("executeQuery")
                  ELSE Raise("executeQuery", "query failed",
                             Error("Failed to execute query: " \o DriverMessage("")))
    /\ UNCHANGED <<caller, factory, reqType, connector, tableList, result, pcC>>

\* connector.getSchema() of the five connectors: without a handle the error
\* of the guard is thrown; else the catalog of the engine is read
GetSchema ==
    /\ pcC = "run"
    /\ script # <<>>
    /\ Head(script) = "getSchema"
    /\ IF connector.handle = "null"
         THEN Raise("getSchema", "not connected",
                    Error("Database connection not established"))
         ELSE \E ok \in BOOLEAN :
                IF ok /\ connector.handle = "connected"
                  THEN Pass("getSchema")
                  ELSE Raise("getSchema", "query failed",
                             Error("Failed to fetch schema: " \o DriverMessage("")))
    /\ UNCHANGED <<caller, factory, reqType, connector, tableList, result, pcC>>

\* what the caller hands back: the routes answer with JSON in both cases;
\* testConnection builds the connector outside of its try and answers a
\* boolean from within
Return ==
    /\ pcC = "run"
    /\ script = <<>>
    /\ pcC' = "done"
    /\ result' =
         IF caller \in Routes
           THEN [returns |-> "json", success |-> thrown = NoError,
                 error |-> thrown.message, tables |-> tableList]
         ELSE IF caller = "testConnection"
           THEN (IF connector = NoConnector
                   THEN [returns |-> "throw", success |-> FALSE,
                         error |-> thrown.message, tables |-> <<>>]
                   ELSE [returns |-> "boolean", success |-> thrown = NoError,
                         error |-> "", tables |-> <<>>])
         ELSE [returns |-> "void", success |-> thrown = NoError,
               error |-> thrown.message, tables |-> <<>>]
    /\ UNCHANGED <<caller, factory, reqType, connector, script, thrown, log, tableList>>

-----------------------------------------------------------------------------
(* SpecIngest: storeProcessedData called for one source after the other *)

MaxIngestions == 3
\* schema.tableName of the sources that are ingested
IngestNames == {"sales", "a b", "a_b", "A-B", "1a", "t1a"}
\* how one call of storeProcessedData ends
IngestOutcomes == {"stored", "syncFailed", "bulkCreateFailed", "createFailed"}

ingestVars == <<dbTables, tableRows, catalogRecords, ingestions>>

InitIngest ==
    /\ dbTables = {}
    /\ tableRows = {}
    /\ catalogRecords = <<>>
    /\ ingestions = 0

IdleIngest ==
    /\ dbTables = {}
    /\ tableRows = {}
    /\ catalogRecords = <<>>
    /\ ingestions = MaxIngestions

\* storeProcessedData, lines 177-216, for the source named source: the table
\* of the sanitized name is created if it does not exist (sync), the rows are
\* inserted into it (bulkCreate) and a DataSource record is written (create);
\* nothing looks for a table or a record of that name
Ingest ==
    /\ ingestions < MaxIngestions
    /\ ingestions' = ingestions + 1
    /\ \E source \in IngestNames, outcome \in IngestOutcomes :
         \E sanitizedTableName \in {SanitizeTableName(source)} :
           /\ dbTables' = IF outcome = "syncFailed" THEN dbTables
                          ELSE dbTables \cup {sanitizedTableName}
           /\ tableRows' = IF outcome \in {"syncFailed", "bulkCreateFailed"}
                             THEN tableRows
                             ELSE tableRows \cup {<<sanitizedTableName, source>>}
           /\ catalogRecords' =
                IF outcome = "stored"
                  THEN Append(catalogRecords,
                              [name |-> sanitizedTableName, source |-> source,
                               tableName |-> sanitizedTableName])
                  ELSE catalogRecords

-----------------------------------------------------------------------------
(* SpecGroupBy: fixGroupByIssues applied to bounded statements, and the *)
(* engine running the result twice                                      *)

\* aggregates without GROUP BY over the table orders
AggregateQueries ==
    {"SELECT MAX(amount) FROM orders",
     "SELECT name, MAX(amount) FROM orders",
     "SELECT MIN(amount), name FROM orders;",
     "SELECT MAX(amount), MIN(amount) FROM orders",
     "SELECT amount, name, MIN(amount) FROM orders",
     "select name, max(amount) from orders"}
\* statements with a GROUP BY clause
GroupByQueries ==
    {"SELECT region, name FROM sales GROUP BY region",
     "SELECT region, SUM(amount) FROM sales GROUP BY region",
     "SELECT region, name, SUM(amount) FROM sales GROUP BY region",
     "SELECT region, name FROM sales GROUP BY region ORDER BY region LIMIT 5",
     "SELECT region, name FROM sales WHERE amount > 5 GROUP BY region;",
     "SELECT region, name FROM sales GROUP BY region UNION SELECT region, city FROM stores WHERE size > 5"}
\* statements with neither, or with a WHERE condition
OtherQueries ==
    {"SELECT name FROM orders",
     "SELECT name, MAX(amount) FROM orders WHERE amount > 3"}
FixInputs == AggregateQueries \cup GroupByQueries \cup OtherQueries

\* the rows of orders; two of them tie on the greatest amount
OrderRows ==
    <<[name |-> "ann", amount |-> 5], [name |-> "bob", amount |-> 5],
      [name |-> "cy", amount |-> 3]>>
AmountText(n) == IF n = 5 THEN "5" ELSE "3"
\* the orders in which the engine may enumerate the rows
RowOrders ==
    {o \in [1..Len(OrderRows) -> 1..Len(OrderRows)] :
       \A i, j \in 1..Len(OrderRows) : o[i] = o[j] => i = j}
\* ONLY_FULL_GROUP_BY is part of sql_mode or it is not
SqlModes == {"ONLY_FULL_GROUP_BY", ""}

\* s.split(sep)
RECURSIVE Split(_, _)
Split(s, sep) ==
    LET i == FirstIndexOf(s, sep)
    IN  IF i = 0 THEN <<s>>
        ELSE <<Before(s, i)>> \o Split(From(s, i + Len(sep)), sep)

NoRows == [ok |-> TRUE, row |-> <<>>, error |-> ""]
\* what the engine answers to SELECT <items> FROM orders when it enumerates
\* the rows in the given order: MIN and MAX range over all rows; a bare column
\* beside an aggregate is refused under ONLY_FULL_GROUP_BY and is taken from
\* the first row the engine meets otherwise; an aggregate in a WHERE condition
\* is refused
EngineRows(sql, order, mode) ==
    LET body == IF At(sql, Len(sql)) = ";" THEN Before(sql, Len(sql)) ELSE sql
        tail == " FROM orders"
        items == Split(SubSeq(body, 8, Len(body) - Len(tail)), ", ")
        amounts == {OrderRows[k].amount : k \in 1..Len(OrderRows)}
        IsAggregate(item) == MatchesAtCI(item, 1, "MAX(") \/ MatchesAtCI(item, 1, "MIN(")
        Value(item) ==
            IF MatchesAtCI(item, 1, "MAX(")
              THEN AmountText(CHOOSE a \in amounts : \A b \in amounts : b <= a)
            ELSE IF MatchesAtCI(item, 1, "MIN(")
              THEN AmountText(CHOOSE a \in amounts : \A b \in amounts : a <= b)
            ELSE IF item = "amount" THEN AmountText(OrderRows[order[1]].amount)
            ELSE OrderRows[order[1]].name
    IN  IF includes(body, " WHERE (")
          THEN [ok |-> FALSE, row |-> <<>>, error |-> "Invalid use of group function"]
        ELSE IF /\ mode = "ONLY_FULL_GROUP_BY"
                /\ \E k \in 1..Len(items) : ~IsAggregate(items[k])
                /\ \E k \in 1..Len(items) : IsAggregate(items[k])
          THEN [ok |-> FALSE, row |-> <<>>,
                error |-> "In aggregated query without GROUP BY, expression of SELECT list contains nonaggregated column"]
        ELSE [ok |-> TRUE, row |-> [k \in 1..Len(items) |-> Value(items[k])],
              error |-> ""]

groupByVars == <<gbInput, gbFixed, sqlMode, firstRows, secondRows, pcG>>

InitGroupBy ==
    /\ gbInput \in FixInputs
    /\ gbFixed = ""
    /\ sqlMode \in SqlModes
    /\ firstRows = NoRows
    /\ secondRows = NoRows
    /\ pcG = "start"

IdleGroupBy ==
    /\ gbInput = ""
    /\ gbFixed = ""
    /\ sqlMode = ""
    /\ firstRows = NoRows
    /\ secondRows = NoRows
    /\ pcG = "idle"

\* executeQuery, line 479: sqlQuery = this.fixGroupByIssues(sqlQuery)
FixGroupBy ==
    /\ pcG = "start"
    /\ gbFixed' = fixGroupByIssues(gbInput)
    /\ pcG' = "fixed"
    /\ UNCHANGED <<gbInput, sqlMode, firstRows, secondRows>>

\* the engine runs the statement
RunFirst ==
    /\ pcG = "fixed"
    /\ gbInput \in AggregateQueries
    /\ \E order \in RowOrders : firstRows' = EngineRows(gbFixed, order, sqlMode)
    /\ pcG' = "ranOnce"
    /\ UNCHANGED <<gbInput, gbFixed, sqlMode, secondRows>>

\* the engine runs the same statement again; the data have not changed
RunSecond ==
    /\ pcG = "ranOnce"
    /\ \E order \in RowOrders : secondRows' = EngineRows(gbFixed, order, sqlMode)
    /\ pcG' = "ranTwice"
    /\ UNCHANGED <<gbInput, gbFixed, sqlMode, firstRows>>

-----------------------------------------------------------------------------
(* Specifications *)

vars == <<nameVars, inferVars, specVars, cacheVars, connVars, ingestVars, groupByVars>>

NextNames ==
    \/ ApplySanitize /\ UNCHANGED <<inferVars, specVars, cacheVars, connVars, ingestVars, groupByVars>>
    \/ ApplySanitizeAgain /\ UNCHANGED <<inferVars, specVars, cacheVars, connVars, ingestVars, groupByVars>>
    \/ ProcessFile /\ UNCHANGED <<inferVars, specVars, cacheVars, connVars, ingestVars, groupByVars>>
    \/ StoreTableName /\ UNCHANGED <<inferVars, specVars, cacheVars, connVars, ingestVars, groupByVars>>
    \/ SelectSource /\ UNCHANGED <<inferVars, specVars, cacheVars, connVars, ingestVars, groupByVars>>
    \/ LookupTable /\ UNCHANGED <<inferVars, specVars, cacheVars, connVars, ingestVars, groupByVars>>
    \/ BuildPrompt /\ UNCHANGED <<inferVars, specVars, cacheVars, connVars, ingestVars, groupByVars>>
NamesInit == InitNames /\ IdleInfer /\ IdleSpec /\ IdleCache /\ IdleConn /\ IdleIngest /\ IdleGroupBy
SpecNames == NamesInit /\ [][NextNames]_vars

NextInfer == InferType /\ UNCHANGED <<nameVars, specVars, cacheVars, connVars, ingestVars, groupByVars>>
InferInit == InitInfer /\ IdleNames /\ IdleSpec /\ IdleCache /\ IdleConn /\ IdleIngest /\ IdleGroupBy
SpecInfer == InferInit /\ [][NextInfer]_vars

NextCache ==
    \/ \E p \in Calls : ExecLookup(p) /\ UNCHANGED <<nameVars, inferVars, specVars, connVars, ingestVars, groupByVars>>
    \/ \E p \in Calls : ExecFind(p) /\ UNCHANGED <<nameVars, inferVars, specVars, connVars, ingestVars, groupByVars>>
    \/ \E p \in Calls : ExecConnectDone(p) /\ UNCHANGED <<nameVars, inferVars, specVars, connVars, ingestVars, groupByVars>>
    \/ \E p \in Calls : ExecQueryDone(p) /\ UNCHANGED <<nameVars, inferVars, specVars, connVars, ingestVars, groupByVars>>
    \/ \E p \in Calls : AddStart(p) /\ UNCHANGED <<nameVars, inferVars, specVars, connVars, ingestVars, groupByVars>>
    \/ \E p \in Calls : AddConnectDone(p) /\ UNCHANGED <<nameVars, inferVars, specVars, connVars, ingestVars, groupByVars>>
    \/ \E p \in Calls : AddSchemaDone(p) /\ UNCHANGED <<nameVars, inferVars, specVars, connVars, ingestVars, groupByVars>>
    \/ \E p \in Calls : AddRecordDone(p) /\ UNCHANGED <<nameVars, inferVars, specVars, connVars, ingestVars, groupByVars>>
    \/ \E p \in Calls : RemoveLookup(p) /\ UNCHANGED <<nameVars, inferVars, specVars, connVars, ingestVars, groupByVars>>
    \/ \E p \in Calls : RemoveDisconnectDone(p) /\ UNCHANGED <<nameVars, inferVars, specVars, connVars, ingestVars, groupByVars>>
    \/ \E p \in Calls : RemoveDestroy(p) /\ UNCHANGED <<nameVars, inferVars, specVars, connVars, ingestVars, groupByVars>>
CacheInit == InitCache /\ IdleNames /\ IdleInfer /\ IdleSpec /\ IdleConn /\ IdleIngest /\ IdleGroupBy
SpecCache == CacheInit /\ [][NextCache]_vars

NextConn ==
    \/ CreateConnector /\ UNCHANGED <<nameVars, inferVars, specVars, cacheVars, ingestVars, groupByVars>>
    \/ Connect /\ UNCHANGED <<nameVars, inferVars, specVars, cacheVars, ingestVars, groupByVars>>
    \/ Disconnect /\ UNCHANGED <<nameVars, inferVars, specVars, cacheVars, ingestVars, groupByVars>>
    \/ GetTables /\ UNCHANGED <<nameVars, inferVars, specVars, cacheVars, ingestVars, groupByVars>>
    \/ ExecuteQuery /\ UNCHANGED <<nameVars, inferVars, specVars, cacheVars, ingestVars, groupByVars>>
    \/ GetSchema /\ UNCHANGED <<nameVars, inferVars, specVars, cacheVars, ingestVars, groupByVars>>
    \/ Return /\ UNCHANGED <<nameVars, inferVars, specVars, cacheVars, ingestVars, groupByVars>>
ConnInit == InitConn /\ IdleNames /\ IdleInfer /\ IdleSpec /\ IdleCache /\ IdleIngest /\ IdleGroupBy
SpecConn == ConnInit /\ [][NextConn]_vars

NextIngest ==
    \/ Ingest /\ UNCHANGED <<nameVars, inferVars, specVars, cacheVars, connVars, groupByVars>>
IngestInit == InitIngest /\ IdleNames /\ IdleInfer /\ IdleSpec /\ IdleCache /\ IdleConn /\ IdleGroupBy
SpecIngest == IngestInit /\ [][NextIngest]_vars

NextGroupBy ==
    \/ FixGroupBy /\ UNCHANGED <<nameVars, inferVars, specVars, cacheVars, connVars, ingestVars>>
    \/ RunFirst /\ UNCHANGED <<nameVars, inferVars, specVars, cacheVars, connVars, ingestVars>>
    \/ RunSecond /\ UNCHANGED <<nameVars, inferVars, specVars, cacheVars, connVars, ingestVars>>
GroupByInit == InitGroupBy /\ IdleNames /\ IdleInfer /\ IdleSpec /\ IdleCache /\ IdleConn /\ IdleIngest
SpecGroupBy == GroupByInit /\ [][NextGroupBy]_vars

Next ==
    \/ PrepareStore /\ UNCHANGED <<queryVars, nameVars, inferVars, cacheVars, connVars, ingestVars, groupByVars>>
    \/ CreateTable /\ UNCHANGED <<queryVars, nameVars, inferVars, cacheVars, connVars, ingestVars, groupByVars>>
    \/ BulkLoad /\ UNCHANGED <<queryVars, nameVars, inferVars, cacheVars, connVars, ingestVars, groupByVars>>
    \/ WriteCatalog /\ UNCHANGED <<queryVars, nameVars, inferVars, cacheVars, connVars, ingestVars, groupByVars>>
    \/ Receive /\ UNCHANGED <<dbVars, nameVars, inferVars, cacheVars, connVars, ingestVars, groupByVars>>
    \/ ResolveSchemas /\ UNCHANGED <<dbVars, nameVars, inferVars, cacheVars, connVars, ingestVars, groupByVars>>
    \/ GenerateSQL /\ UNCHANGED <<dbVars, nameVars, inferVars, cacheVars, connVars, ingestVars, groupByVars>>
    \/ GenerateCorrection /\ UNCHANGED <<dbVars, nameVars, inferVars, cacheVars, connVars, ingestVars, groupByVars>>
    \/ GenerateOpenAI /\ UNCHANGED <<dbVars, nameVars, inferVars, cacheVars, connVars, ingestVars, groupByVars>>
    \/ GenerateNone /\ UNCHANGED <<dbVars, nameVars, inferVars, cacheVars, connVars, ingestVars, groupByVars>>
    \/ Repair /\ UNCHANGED <<dbVars, nameVars, inferVars, cacheVars, connVars, ingestVars, groupByVars>>
    \/ Validate /\ UNCHANGED <<dbVars, nameVars, inferVars, cacheVars, connVars, ingestVars, groupByVars>>
    \/ Execute /\ UNCHANGED <<dbVars, nameVars, inferVars, cacheVars, connVars, ingestVars, groupByVars>>
    \/ Answer /\ UNCHANGED <<dbVars, nameVars, inferVars, cacheVars, connVars, ingestVars, groupByVars>>
    \/ Respond /\ UNCHANGED <<dbVars, nameVars, inferVars, cacheVars, connVars, ingestVars, groupByVars>>
Init == InitSpec /\ IdleNames /\ IdleInfer /\ IdleCache /\ IdleConn /\ IdleIngest /\ IdleGroupBy
Spec == Init /\ [][Next]_vars

-----------------------------------------------------------------------------
(* Properties of Spec *)

\* C1: ingestion is all-or-nothing: if any step of storeProcessedData (create
\* the backing table, bulk-load the rows, write the catalog record) fails,
\* then afterwards neither the backing table nor a catalog record of the
\* source exists; if it succeeds, both exist.
C1_AllOrNothing ==
    /\ upPc = "failed" => tableState = "absent" /\ catalog = 0
    /\ upPc = "done" => tableState = "loaded" /\ catalog = 1

\* the table of the upload exists, and its load and its catalog record are
\* not both complete
HalfCreated == tableState # "absent" /\ ~(tableState = "loaded" /\ catalog >= 1)

\* C2: under every interleaving of an ingestion with a concurrent query
\* request on the same source, the query never resolves a schema for, nor
\* reads rows from, a table that has been created but whose bulk load and
\* catalog write have not both completed.
C2_NoHalfCreatedTable ==
    [][(\/ schemas = <<>> /\ schemas' # <<>>
        \/ engineCalls' = engineCalls + 1) => ~HalfCreated]_vars

\* C3: in every run of executeQuery in which a statement is sent to the
\* engine, validateColumnNames was called earlier in that run on exactly the
\* text that is executed and returned valid; the validation itself never
\* changes the statement.
C3_ValidatedBeforeExecuted ==
    [][/\ engineCalls' = engineCalls + 1 =>
            /\ executedText' = validatedText
            /\ validateColumnNames(executedText', schemas).valid
       /\ qPc = "Repaired" => sqlQuery' = sqlQuery]_vars

\* a statement that the repairs changed was validated and sent to the engine
C3_Witness ==
    /\ engineCalls = 1
    /\ executedText = validatedText
    /\ executedText # ""
    /\ executedText # generated

\* the stages that come before the call of the engine
BeforeEngine == {StageOrder[i] : i \in 1..5}

\* C4: a query request moves only forward through Received, SchemaResolved,
\* SQLGenerated, Repaired, Validated, Executed, Answered: no stage is entered
\* twice, and once a stage fails the request ends in a failure state without
\* any later stage's action: no engine call after a failed generation or
\* validation, no answer-generation call after a failed execution.
C4_ForwardOnly ==
    /\ Len(stages) <= Len(StageOrder)
    /\ \A i \in 1..Len(stages) : stages[i] = StageOrder[i]
    /\ failedAt # "" <=> qPc = "Failed"
    /\ qPc = "Failed" => failedAt = StageOrder[Len(stages) + 1]
    /\ failedAt \in BeforeEngine => engineCalls = 0 /\ answerCalls = 0
    /\ failedAt = "Executed" => engineCalls >= 1 /\ answerCalls = 0
    /\ engineCalls <= RetryMax /\ answerCalls <= 1
    /\ engineCalls >= 1 => Len(stages) >= 5
    /\ answerCalls = 1 => Len(stages) >= 6

\* the engine refused a validated statement and the request ended there
C4_Witness ==
    /\ qPc = "Failed"
    /\ failedAt = "Executed"
    /\ stages = SubSeq(StageOrder, 1, 5)
    /\ engineCalls = 1
    /\ answerCalls = 0

\* C5: per request, SQL generation makes at most two generation calls to the
\* LLM: the second, corrective call only when the first extracted statement
\* contains SELECT *; the correction is returned only if it does not contain
\* SELECT *, otherwise the original statement is returned; there is no third
\* call.
C5_AtMostOneCorrection ==
    /\ llmCalls <= 2
    /\ llmCalls = 2 => provider = "ollama" /\ HasSelectStar(firstStatement)
    /\ (llmCalls = 2 /\ correction # "") =>
          generated = IF HasSelectStar(correction)
                        THEN firstStatement ELSE correction
    /\ (llmCalls = 1 /\ generated # "") => generated = firstStatement
    /\ llmCalls = 0 => generated = ""

\* the first statement selected *, the correction did too and was dropped
C5_Witness ==
    /\ llmCalls = 2
    /\ HasSelectStar(correction)
    /\ correction # firstStatement
    /\ generated = firstStatement
    /\ qPc = "SQLGenerated"

\* the word w stands in s as an identifier of its own
WordOccurs(s, w) ==
    \E i \in 1..Len(s) :
        /\ MatchesAt(s, i, w)
        /\ WordBoundary(s, i)
        /\ WordBoundary(s, i + Len(w))

\* C6: if the repaired statement references a column identifier (bare,
\* backtick-quoted or table.column) that matches no column of the selected
\* schemas, the validator rejects it with a failure that names the identifier
\* and lists the legal columns: a query on revenue against a schema that
\* holds only total_revenue is rejected with total_revenue listed.
C6_UnmatchedRejected ==
    (/\ Len(stages) >= 4
     /\ qPc # "Repaired"
     /\ WordOccurs(sqlQuery, "revenue"))
    => /\ failedAt = "Validated"
       /\ includes(qError, "Invalid column(s): revenue")
       /\ includes(qError, "total_revenue")

\* C7: whenever the raw output of the LLM contains INVALID_QUERY, the
\* generation fails with an error that carries the explanation of the model,
\* and no statement of that output is returned, validated or executed.
C7_SentinelFails ==
    (provider = "ollama" /\ includes(rawResponse, "INVALID_QUERY"))
    => /\ failedAt = "SQLGenerated"
       /\ includes(qError, "Could not generate SQL query")
       /\ generated = ""
       /\ validatedText = ""
       /\ engineCalls = 0

-----------------------------------------------------------------------------
(* Properties of SpecNames *)

\* C8: table-name sanitization is idempotent: applying the sanitization of
\* storeProcessedData to its own output gives the same identifier,
\* sanitize(sanitize(x)) = sanitize(x), for every raw name x.
C8_SanitizeIdempotent ==
    pcN \notin {"idle", "start", "once"} => twice = once

\* a raw name that the sanitization really changed has been sanitized twice
C8_Witness ==
    /\ pcN = "twice"
    /\ once # ""
    /\ once # rawName
    /\ \E i \in 1..Len(rawName) : At(rawName, i) \notin WordChars

\* C9: the table identifier that ingestion derives for an uploaded file equals
\* the identifier that the query path derives for the same source when it
\* looks the table up (getSourceSchemas) and when it builds the prompt.
C9_SameIdentifier ==
    /\ pcN \in {"resolved", "notfound", "prompted"} => lookupIdent = tableIdent
    /\ pcN = "prompted" => promptIdent = tableIdent

-----------------------------------------------------------------------------
(* Properties of SpecInfer *)

\* the text of the cell is purely numeric: a number, or a numeric string
IsNumericCell(c) ==
    \/ c.t = "number"
    \/ c.t = "string" /\ NumericPattern(trim(c.s))

\* the cell is written with a fractional part
WrittenWithFraction(c) == includes(c.s, ".")

\* C10: for a column whose non-null values are all purely numeric,
\* inferColumnType returns INTEGER when every value is integral and FLOAT as
\* soon as any value is written with a fractional part, so that
\* ["5", "10", "7"] gives INTEGER and ["5.0", "3"] gives FLOAT.
C10_IntegerOrFloat ==
    (/\ pcI = "done"
     /\ \E i \in 1..Len(cells) : cells[i].t # "null"
     /\ \A i \in 1..Len(cells) : cells[i].t = "null" \/ IsNumericCell(cells[i]))
    => inferred = IF \E i \in 1..Len(cells) : WrittenWithFraction(cells[i])
                    THEN "FLOAT" ELSE "INTEGER"

\* C11: inferColumnType returns TEXT for every column in which at least one
\* non-null value contains an alphabetic character, wherever that value
\* stands among the rows and whatever the other values are (numbers,
\* booleans, dates); a column with no non-null value is TEXT.
C11_LetterForcesText ==
    pcI = "done" =>
      /\ (\E i \in 1..Len(cells) :
             cells[i].t = "string" /\ HasLetter(cells[i].s)) => inferred = "TEXT"
      /\ (\A i \in 1..Len(cells) : cells[i].t = "null") => inferred = "TEXT"

\* a date and a number stand before the value that holds a letter
C11_Witness ==
    /\ pcI = "done"
    /\ Len(cells) = 3
    /\ cells[1].t = "date"
    /\ cells[2].t = "number"
    /\ cells[3] = StringCell("12a")
    /\ inferred = "TEXT"

-----------------------------------------------------------------------------
(* Properties of SpecCache *)

\* C12: in every reachable state of the connector cache, two concurrent first
\* uses of the same uncached source included, each cached entry is a
\* connector whose connect() completed successfully before it was inserted;
\* a connector whose connect() failed is never cached.
C12_CachedAfterConnect ==
    \A id \in DataSourceIds :
        connectors[id] # 0 => svcConn[connectors[id]] \in {"connected", "closed"}

\* two first uses of the stored source raced: the connect() of one failed,
\* the connector of the other is the cached one
C12_Witness ==
    /\ svcOp = [p \in Calls |-> "executeQuery"]
    /\ svcConn[1] = "failed"
    /\ svcConn[2] = "connected"
    /\ connectors[StoredId] = 2

-----------------------------------------------------------------------------
(* Failures of the engine call, and the execute flag *)

\* the kind of failure an error of the engine stands for
Subtype(err) ==
    IF includes(err.message, "Unknown column") THEN "unknown-column"
    ELSE IF includes(err.message, "doesn't exist") THEN "unknown-table"
    ELSE IF includes(err.message, "SQL syntax") THEN "syntax-error"
    ELSE IF Retried(err) \/ includes(err.message, "Connection lost")
      THEN "connection-lost"
    ELSE "generic-engine-error"

\* the kind of failure the message of the request's error tells its reader
ReportedSubtype(message) ==
    IF MatchesAt(message, 1, "Query execution failed: Unknown column '")
      THEN "unknown-column"
    ELSE IF MatchesAt(message, 1, "Query execution failed: Unknown table")
      THEN "unknown-table"
    ELSE IF MatchesAt(message, 1, "Query execution failed: Syntax error")
      THEN "syntax-error"
    ELSE IF MatchesAt(message, 1, "Query execution failed: Connection lost")
      THEN "connection-lost"
    ELSE "generic-engine-error"

\* C18: a failure of the engine call is reported with the subtype of its
\* cause, one of unknown-column, unknown-table, syntax-error, connection-lost
\* and generic-engine-error; an unknown-column failure carries the name of
\* the column, taken from the engine's message, and the columns of the
\* selected schemas.
C18_EngineFailureClassified ==
    failedAt = "Executed" =>
      /\ ReportedSubtype(qError) = Subtype(engineError)
      /\ Subtype(engineError) = "unknown-column" =>
           /\ includes(qError, "'" \o OffendingColumn \o "'")
           /\ includes(qError, Join(schemas[1].columns, ", "))

\* C19: an engine call that fails with a connection-lost or other
\* infrastructure error ends the request with that failure, and the engine
\* call has been issued exactly once.
C19_InfrastructureFailureNotRetried ==
    (/\ engineError # NoEngineError
     /\ Subtype(engineError) \in {"connection-lost", "generic-engine-error"})
      => /\ engineCalls = 1
         /\ qPc \in {"Validated", "Failed"}
         /\ qPc = "Failed" => failedAt = "Executed"

\* C20: a request whose execute flag is not true only generates the SQL:
\* its statement is never sent to the engine.
C20_NoExecutionWithoutConfirmation ==
    ~execute => engineCalls = 0 /\ executedText = ""

-----------------------------------------------------------------------------
(* Properties of SpecConn *)

\* the last call made on the connector
LastCall == log[Len(log)]
C14_EveryFactoryBuildsEveryKind ==
    pcC \in {"run", "done"} =>
      IF reqType \in EngineKinds
        THEN connector.engine = reqType /\ log[1].fault = ""
        ELSE connector = NoConnector /\ log[1].fault = "unsupported type"

\* what the database or the network, not the program, may do wrong
EnvironmentFaults == ConnectFaults \cup {"close failed", "query failed"}

\* C15: for every engine kind the flow connect, getTables, disconnect of
\* POST /test against a database that answers completes with the table list.
C15_FlowCompletesForEveryKind ==
    (/\ caller = "POST /test"
     /\ pcC = "done"
     /\ reqType \in EngineKinds
     /\ \A i \in 1..Len(log) : log[i].fault \notin EnvironmentFaults)
      => /\ result.success
         /\ result.tables = DatabaseTables

\* C16: the error of a failed connect() is labelled with its cause, one of
\* authentication failure, network unreachable and unknown database, and it
\* contains the message of the driver.
C16_ConnectFailureLabelled ==
    (/\ Len(log) > 0
     /\ LastCall.method = "connect"
     /\ LastCall.fault \in ConnectFaults)
      => /\ thrown.name = LastCall.fault
         /\ includes(thrown.message, DriverMessage(LastCall.fault))

\* the answer names one of the causes of a failed connect()
Classified(r) == \E cause \in ConnectFaults : includes(r.error, cause)

\* C17: when connect() failed, the caller of testConnection or of POST /test
\* receives an answer, not an exception, and the answer is classified and
\* carries the cause of the failure.
C17_TestConnectionClassifies ==
    (/\ caller \in {"testConnection", "POST /test"}
     /\ pcC = "done"
     /\ \E i \in 1..Len(log) :
          log[i].method = "connect" /\ log[i].fault \in ConnectFaults)
      => /\ result.returns # "throw"
         /\ Classified(result)
         /\ \E i \in 1..Len(log) :
              /\ log[i].method = "connect"
              /\ includes(result.error, DriverMessage(log[i].fault))

-----------------------------------------------------------------------------
(* Properties of SpecIngest *)

\* C21: after any sequence of ingestions no two catalog records carry the
\* same tableName, and no backing table holds the rows of two sources of
\* different names.
C21_TableNamesUnique ==
    /\ \A i, j \in 1..Len(catalogRecords) :
         i # j => catalogRecords[i].tableName # catalogRecords[j].tableName
    /\ \A p, q \in tableRows : p[1] = q[1] => p[2] = q[2]

-----------------------------------------------------------------------------
(* Properties of SpecGroupBy *)

\* C22: an aggregate query without GROUP BY, repaired and executed twice on
\* unchanged data, returns the same single row both times, in whatever order
\* the engine enumerates the rows.
C22_SameRowTwice ==
    pcG = "ranTwice" =>
      /\ secondRows = firstRows
      /\ firstRows.ok => firstRows.row # <<>>

\* the position at which the clause that starts at i ends: where the next
\* clause or the semicolon starts, or after the end of the statement
ClauseEnd(s, i) ==
    LET stops == {j \in i..Len(s) :
                    \E w \in {" GROUP BY", " ORDER BY", " LIMIT", " HAVING",
                              " UNION", " WHERE", ";"} : MatchesAtCI(s, j, w)}
    IN  IF stops = {} THEN Len(s) + 1 ELSE FirstOf(stops)
\* the text of the clause that the keyword word opens, "" when there is none
ClauseOf(s, word) ==
    LET i == FirstOf({j \in 1..Len(s) : MatchesAtCI(s, j, word)})
    IN  IF i = 0 THEN ""
        ELSE SubSeq(s, i + Len(word), ClauseEnd(s, i + Len(word)) - 1)
\* what follows the clause that the keyword word opens
AfterClause(s, word) ==
    LET i == FirstOf({j \in 1..Len(s) : MatchesAtCI(s, j, word)})
    IN  IF i = 0 THEN "" ELSE From(s, ClauseEnd(s, i + Len(word)))
\* the names of a list of items, without quotes and in lower case
ItemNames(list) ==
    {toLowerCase(Without(Split(list, ", ")[k], {BT})) :
       k \in 1..Len(Split(list, ", "))}
\* the columns of the SELECT list that stand outside of a call
PlainSelectColumns(s) ==
    {c \in ItemNames(SubSeq(s, 8, FirstIndexOf(toUpperCase(s), " FROM ") - 1)) :
       ~includes(c, "(")}
\* the columns of the SELECT list that stand inside of an aggregate call only
AggregatedColumns(s) ==
    {SubSeq(c, FirstIndexOf(c, "(") + 1, Len(c) - 1) :
       c \in {d \in ItemNames(SubSeq(s, 8, FirstIndexOf(toUpperCase(s), " FROM ") - 1)) :
                includes(d, "(")}}
      \ PlainSelectColumns(s)

\* C24: for a statement with a GROUP BY clause, after fixGroupByIssues every
\* SELECT column outside of an aggregate stands in the GROUP BY list, no
\* column that occurs only inside aggregates has been added to it, and what
\* follows the GROUP BY list (ORDER BY, LIMIT) is unchanged.
C24_GroupByCompleted ==
    (pcG = "fixed" /\ gbInput \in GroupByQueries) =>
      /\ PlainSelectColumns(gbInput) \subseteq ItemNames(ClauseOf(gbFixed, " GROUP BY "))
      /\ \A c \in AggregatedColumns(gbInput) :
           c \in ItemNames(ClauseOf(gbFixed, " GROUP BY "))
             => c \in ItemNames(ClauseOf(gbInput, " GROUP BY "))
      /\ AfterClause(gbFixed, " GROUP BY ") = AfterClause(gbInput, " GROUP BY ")

\* C30: the statement fixGroupByIssues returns has the FROM table and the
\* WHERE condition of the statement it was given.
C30_SameRowsRangedOver ==
    pcG = "fixed" =>
      /\ ClauseOf(gbFixed, " FROM ") = ClauseOf(gbInput, " FROM ")
      /\ ClauseOf(gbFixed, " WHERE ") = ClauseOf(gbInput, " WHERE ")


-----------------------------------------------------------------------------
(* The order of the repairs *)

\* the repairs in their order: fences and sentinel, stale references,
\* backticks, columns of several words, keywords, SELECT *, GROUP BY, literal
\* values, explanation after the statement
RepairOrder ==
    <<"fence", "stale-reference", "backticks", "multi-word", "keywords",
      "select-star", "group-by", "literal-quoting", "truncation">>

\* the repairs applied, the test of the sentinel left aside: it belongs to
\* the first of them
RepairsApplied == SelectSeq(applied, LAMBDA step : step # "sentinel")

\* C23: a statement that went through the repairs of the request, whatever
\* the provider, went through every one of them, in their order.
C23_RepairsInOrder ==
    Len(stages) >= 4 => RepairsApplied = RepairOrder

-----------------------------------------------------------------------------
(* A file name in the place of a table name *)

\* the error of extractSQLQuery, line 418, as executeQuery would pass it on
StaleReferenceError ==
    QueryFailure("Generated SQL query contains invalid table names. "
                   \o "Please try rephrasing your question.")

\* C25: when the statement the LLM answered reads FROM the name of a file, the
\* request fails at the generation with the error of the stale reference, and
\* no statement is returned.
C25_StaleReferenceRejected ==
    (llmCalls >= 1 /\ HasUnsanitizedTableName(rawResponse)) =>
        /\ qPc = "Failed"
        /\ failedAt = "SQLGenerated"
        /\ qError = StaleReferenceError
        /\ generated = ""

-----------------------------------------------------------------------------
(* The connection of a connector, and the connections its callers leave *)

\* before the k-th call: the last connect() before it returned, and no
\* disconnect() has returned since
Established(k) ==
    \E j \in 1..(k - 1) :
        /\ log[j].method = "connect"
        /\ log[j].fault = ""
        /\ \A i \in (j + 1)..(k - 1) :
              /\ log[i].method # "connect"
              /\ ~(log[i].method = "disconnect" /\ log[i].fault = "")

\* C26: executeQuery() and getSchema() of a connector whose connection is not
\* established throw the error of their guard and send nothing to the engine.
C26_NoQueryWithoutConnection ==
    \A k \in 1..Len(log) :
        (log[k].method \in {"executeQuery", "getSchema"} /\ ~Established(k))
            => log[k].fault = "not connected"

\* C28: when testConnection or one of the routes answers, and disconnect()
\* itself has not failed, the connector it built holds no open connection.
C28_NoConnectionOutlivesRequest ==
    (/\ pcC = "done"
     /\ caller # "direct"
     /\ \A k \in 1..Len(log) : log[k].fault # "close failed")
        => connector.handle # "connected"

-----------------------------------------------------------------------------
(* removeDataSource beside executeQuery *)

\* C27: once removeDataSource has returned and no call is under way, the
\* cache holds no connector for the data source and no connector that
\* executeQuery opened for it is connected.
C27_NothingLeftAfterRemove ==
    (/\ \A p \in Calls : svcPc[p] \in {"done", "failed"}
     /\ \E p \in Calls : svcOp[p] = "removeDataSource" /\ svcPc[p] = "done")
        => /\ connectors[StoredId] = 0
           /\ \A p \in Calls :
                svcOp[p] = "executeQuery" => svcConn[p] # "connected"

-----------------------------------------------------------------------------
(* The answer in natural language *)

\* C29: a request whose statement the engine has executed does not fail: what
\* happens to the call that words the answer leaves the statement and its rows
\* to the caller.
C29_RowsSurviveAnswerFailure ==
    (\E k \in 1..Len(stages) : stages[k] = "Executed") =>
        /\ qPc # "Failed"
        /\ reply # "error"
=============================================================================
